---------------------------- MODULE Spec2Model ----------------------------
(***************************************************************************)
(* A model of hack/reduce_nat_gateway_cost/replace_nat_with_nat_instance.py *)
(* the controller that replaces a managed NAT gateway by a NAT instance and *)
(* reverses the replacement.  The controller keeps no state of its own: the *)
(* state is that of the cloud account (gateways, instances, route tables,   *)
(* security groups, address allocations and their tags).  Every boto3 call  *)
(* that reads or writes state another party can change is one atomic step;  *)
(* the computation around a call belongs to the step of the call.  Several  *)
(* invocations of lambda_handler run concurrently and interleave at their   *)
(* calls.                                                                   *)
(***************************************************************************)
EXTENDS Integers, Sequences, FiniteSets, TLC

(***************************************************************************)
(* Bounds of the model.                                                    *)
(***************************************************************************)
\* NAT instance ids the account can hand out (i-1 .. i-MaxNat)
MaxNat == 2
\* security group ids the account can hand out (sg-1 .. sg-MaxSg)
MaxSg == 2
\* address allocations that may exist (eipalloc-1 .. eipalloc-MaxEip)
MaxEip == 1
\* lambda invocations that may run at the same time
MaxConcurrent == 2
\* lambda invocations delivered in one behaviour of the life-cycle model
MaxInv == 3

(***************************************************************************)
(* Identifiers.  All ids and tag values are strings.                        *)
(***************************************************************************)
NatId(n) == "i-" \o ToString(n)
SgId(n) == "sg-" \o ToString(n)
EipId(n) == "eipalloc-" \o ToString(n)

NatIds == {NatId(n) : n \in 1..MaxNat}
SgIds == {SgId(n) : n \in 1..MaxSg}
EipIds == {EipId(n) : n \in 1..MaxEip}
\* cluster instances: a control-plane node
ClusterIds == {"m-1"}
\* a further instance of the cluster, which one call launches or terminates
\* together with the first
BatchIds == {"m-2"}
InstanceIds == NatIds \cup ClusterIds \cup BatchIds
GatewayIds == {"nat-1"}
RouteTableIds == {"rtb-1"}
\* the gateway and the private route table of a second availability zone
ZoneGatewayIds == {"nat-2"}
ZoneTableIds == {"rtb-2"}
Invs == 1..MaxConcurrent

TheVpc == "vpc-1"
\* the network of another cluster in the account, and an address allocation
\* tagged ci-nat-vpc with that network
OtherVpc == "vpc-2"
OtherEipIds == {"eipalloc-other"}
\* get_tag's None: the tag is not on the resource
NoTag == "<none>"
\* the value the shutdown hook writes to clear the readiness tag
EmptyTag == ""

VARIABLES
    gw,        \* [GatewayIds -> [state, elig, vpcTag, instTag]]
    inst,      \* [InstanceIds -> [state, elig, role, name, vpc, vpcTag, gwTag, subnetTag, rtTag, sg, boot, hook]]
    rt,        \* [RouteTableIds -> [assoc, routes, instTag, gwTag, vpcTag]]
    sg,        \* [SgIds -> [state, name]], state "absent" | "present" | "deleted"
    eips,      \* the address allocations tagged ci-nat-vpc = TheVpc
    untagged,  \* the address allocations the controller made that carry no tag
    inv,       \* [Invs -> the invocation running, or last run, in that slot]
    budget,    \* invocations still to be delivered
    client_cache  \* [Invs -> the image cached by the process of that slot, or NoTag]

vars == <<gw, inst, rt, sg, eips, untagged, inv, budget, client_cache>>
cloud == <<gw, inst, rt, sg, eips, untagged>>

(***************************************************************************)
(* Sequences and small helpers.                                             *)
(***************************************************************************)
\* all orders in which a describe call may list the set S
Orders(S) == {q \in [1..Cardinality(S) -> S] : \A a, b \in 1..Cardinality(S) : a # b => q[a] # q[b]}

SelectSeqIn(q, S) == SelectSeq(q, LAMBDA x : x \in S)

\* Python truthiness of a tag value: None and "" are falsy
Truthy(v) == v # NoTag /\ v # EmptyTag

\* sub in s, of Python strings
Contains(s, sub) == \E k \in 1..(Len(s) - Len(sub) + 1) : SubSeq(s, k, k + Len(sub) - 1) = sub

(***************************************************************************)
(* Resources of the account.  elig is ci-nat-replace=true; vpcTag, gwTag,   *)
(* instTag and rtTag are the values of the tags ci-nat-vpc, ci-nat-gateway, *)
(* ci-nat-instance and ci-nat-private-route-table; role and name are the    *)
(* values of the tags sigs.k8s.io/cluster-api-provider-aws/role and Name.   *)
(***************************************************************************)
\* line 244: the subnetId of the gateway in the event, its public subnet
PublicSubnetId(g) == "subnet-public-" \o g
\* subnetTag is the value of the tag ci-nat-public-subnet
NoInstance == [state |-> "absent", elig |-> FALSE, role |-> NoTag, name |-> NoTag, vpc |-> NoTag, vpcTag |-> NoTag,
               gwTag |-> NoTag, subnetTag |-> NoTag, rtTag |-> NoTag, sg |-> NoTag, boot |-> "off", hook |-> "off"]
\* line 703: the Name tag of a Substitute Instance
InstanceName(subnetName) == subnetName \o "-ci-nat"
NatInstance(state, g, s) == [NoInstance EXCEPT !.state = state, !.name = InstanceName("subnet-" \o g), !.vpc = TheVpc,
                                               !.vpcTag = TheVpc, !.gwTag = g, !.subnetTag = PublicSubnetId(g),
                                               !.rtTag = "rtb-1", !.sg = s]
NoGateway == [state |-> "absent", elig |-> FALSE, vpcTag |-> NoTag, instTag |-> NoTag]
NoGroup == [state |-> "absent", name |-> NoTag, vpc |-> NoTag, gwTag |-> NoTag, vpcTag |-> NoTag]
NoRouteTable == [assoc |-> FALSE, routes |-> {}, instTag |-> NoTag, gwTag |-> NoTag, vpcTag |-> NoTag]

(***************************************************************************)
(* An invocation slot.  pc "idle" is a slot never used.  An invocation ends *)
(* with pc "converged" (cleanup's loop broke at line 951), "returned" (any  *)
(* other return) or "failed" (an exception left lambda_handler); the slot   *)
(* keeps what the invocation did until the next invocation takes it.        *)
(* atStart is the ci-nat-instance tag the gateway carried when the event    *)
(* arrived, which the handler does not read; apiError is the event carrying *)
(* errorCode or errorMessage; described is the handler having called        *)
(* describe_nat_gateways or describe_instances for the event's resource.    *)
(* ami and launchErr are the image of the last launch attempt and the error *)
(* code that moved the launch loop on; error is the code of the error that  *)
(* left the handler from delete_security_group; subnets are the subnets     *)
(* describe_subnets showed to handle_create_nat_gateway; items are the      *)
(* instances a RunInstances or TerminateInstances event lists.              *)
(***************************************************************************)
IdleInv == [pc |-> "idle", ev |-> "none", subj |-> NoTag, elig |-> FALSE, atStart |-> NoTag,
            vpc |-> NoTag, rtId |-> NoTag, sgId |-> NoTag, idx |-> 0, poll |-> 0,
            newInst |-> NoTag, ami |-> NoTag, launchErr |-> NoTag, target |-> NoTag, alloc |-> NoTag,
            routeOk |-> FALSE, lookupErr |-> FALSE,
            apiError |-> FALSE, described |-> FALSE, queue |-> <<>>,
            ntSeen |-> FALSE, batch |-> FALSE, eipsSeen |-> FALSE, sgsSeen |-> FALSE,
            slept |-> FALSE, startedEmpty |-> FALSE, calls |-> {}, error |-> NoTag,
            subnets |-> {}, items |-> <<>>]

FinalPcs == {"converged", "returned", "failed"}
Finished(p) == inv[p].pc \in FinalPcs
Running(p) == inv[p].pc \notin FinalPcs \cup {"idle"}

\* the invocation r goes on at pc; its local variables end with it
Goto(r, pc) ==
    IF pc \in FinalPcs
    THEN [IdleInv EXCEPT !.pc = pc, !.ev = r.ev, !.subj = r.subj, !.elig = r.elig, !.vpc = r.vpc,
                         !.routeOk = r.routeOk, !.slept = r.slept, !.startedEmpty = r.startedEmpty,
                         !.calls = r.calls, !.apiError = r.apiError, !.described = r.described,
                         !.error = r.error, !.subnets = r.subnets, !.items = r.items]
    ELSE [r EXCEPT !.pc = pc]

\* the invocation r has issued the mutating call c
Called(r, c) == [r EXCEPT !.calls = @ \cup {c}]

(***************************************************************************)
(* cleanup(region, vpc_id): the teardown convergence loop.                  *)
(***************************************************************************)
\* a listing that is filtered by the tag key alone
TaggedInstancesOfAnyNetwork(v) == {i \in InstanceIds : inst[i].state # "absent" /\ inst[i].gwTag # NoTag}
\* the instances describe_instances returns for the filters vpc-id and
\* tag-key ci-nat-gateway (terminated instances stay listed)
TaggedInstances(v) == {i \in InstanceIds : inst[i].state # "absent" /\ inst[i].gwTag # NoTag /\ inst[i].vpc = v}
\* a listing that also counts terminated instances as not terminated
NonTerminatedOrNot(v) == TaggedInstances(v)
\* lines 893-897: the listed instances that are not terminated
NonTerminated(v) == {i \in TaggedInstances(v) : inst[i].state # "terminated"}
\* lines 893-901: the listed instances to terminate
ToTerminate(v) == {i \in NonTerminated(v) : inst[i].state # "shutting-down"}
\* the groups describe_security_groups returns for vpc-id and tag-key ci-nat-gateway
TaggedGroups(v) == {s \in SgIds : sg[s].state = "present" /\ sg[s].vpc = v /\ sg[s].gwTag # NoTag}
\* the value of ci-nat-vpc on a tagged allocation
EipVpcTag(e) == IF e \in OtherEipIds THEN OtherVpc ELSE TheVpc
\* get_eips_by_tag(ec2_client, TAG_KEY_VPC_ID, vpc_id)
get_eips_by_tag(v) == {e \in eips : EipVpcTag(e) = v}

\* nothing is left in the network: cleanup has nothing to do
NetworkEmpty(v) ==
    /\ \A i \in InstanceIds : (inst[i].gwTag # NoTag /\ inst[i].vpc = v) => inst[i].state \in {"absent", "terminated"}
    /\ get_eips_by_tag(v) = {}
    /\ TaggedGroups(v) = {}

\* a security group is attached to the network interface of every instance
\* launched with it until that instance is terminated
InUse(s) == \E i \in InstanceIds : inst[i].sg = s /\ inst[i].state \in {"running", "shutting-down"}

\* a check that does not look at the addresses listed
ConvergedIgnoringAddresses(ntSeen, eipsSeen, sgsSeen) == ~ntSeen /\ ~sgsSeen
\* a check that asks for groups to have been listed
ConvergedOnGroups(ntSeen, eipsSeen, sgsSeen) == ~ntSeen /\ ~eipsSeen /\ sgsSeen
\* the check at the end of an iteration (line 949), on what the iteration listed
Converged(ntSeen, eipsSeen, sgsSeen) == ~ntSeen /\ ~eipsSeen /\ ~sgsSeen

\* lines 875-906: describe_instances and the partition of what it lists.  Each
\* run_instances call made its own reservation, so a reservation holds one
\* instance; instances_to_terminate is reset for every reservation (line 888),
\* so after the loop it holds the last reservation's instances only.
CleanupList(p) ==
    /\ inv[p].pc = "cl_list"
    /\ \E order \in Orders(TaggedInstances(inv[p].vpc)) :
         LET todo == SelectSeqIn(order, ToTerminate(inv[p].vpc))
             last == IF Len(order) = 0 THEN FALSE ELSE order[Len(order)] \in ToTerminate(inv[p].vpc)
             nt == NonTerminated(inv[p].vpc) # {}
         IN inv' = [inv EXCEPT ![p] = Goto([@ EXCEPT !.queue = todo, !.batch = last, !.ntSeen = nt],
                                           IF todo # <<>> THEN "cl_term" ELSE "cl_eips")]
    /\ UNCHANGED <<cloud, budget, client_cache>>

\* line 906: terminate_instances for one reservation; lines 908-912 after the
\* last reservation
CleanupTerminate(p) ==
    /\ inv[p].pc = "cl_term"
    /\ LET i == Head(inv[p].queue)
           rest == Tail(inv[p].queue)
       IN /\ inst' = [inst EXCEPT ![i].state = IF @ = "running" THEN "shutting-down" ELSE @]
          /\ inv' = [inv EXCEPT ![p] = Goto(Called([@ EXCEPT !.queue = rest], "terminate_instances"),
                                            IF rest # <<>> THEN "cl_term"
                                            ELSE IF inv[p].batch THEN "returned" ELSE "cl_eips")]
    /\ UNCHANGED <<gw, rt, sg, eips, untagged, budget, client_cache>>

\* line 914: get_eips_by_tag
CleanupListEips(p) ==
    /\ inv[p].pc = "cl_eips"
    /\ \E order \in Orders(get_eips_by_tag(inv[p].vpc)) :
         inv' = [inv EXCEPT ![p] = Goto([@ EXCEPT !.queue = order, !.eipsSeen = order # <<>>],
                                        IF order # <<>> THEN "cl_release" ELSE "cl_sgs")]
    /\ UNCHANGED <<cloud, budget, client_cache>>

\* line 920: release_address; an allocation that is gone raises
\* InvalidAllocationID.NotFound, which nothing catches
CleanupRelease(p) ==
    /\ inv[p].pc = "cl_release"
    /\ LET e == Head(inv[p].queue)
           rest == Tail(inv[p].queue)
       IN /\ eips' = eips \ {e}
          /\ inv' = [inv EXCEPT ![p] = Goto(Called([@ EXCEPT !.queue = rest], "release_address"),
                                            IF e \notin eips THEN "failed"
                                            ELSE IF rest # <<>> THEN "cl_release" ELSE "cl_sgs")]
    /\ UNCHANGED <<gw, inst, rt, sg, untagged, budget, client_cache>>

\* line 924: describe_security_groups; with nothing listed the check of line 949
\* follows at once
CleanupListGroups(p) ==
    /\ inv[p].pc = "cl_sgs"
    /\ \E order \in Orders(TaggedGroups(inv[p].vpc)) :
         inv' = [inv EXCEPT ![p] = Goto([@ EXCEPT !.queue = order, !.sgsSeen = order # <<>>],
                                        IF order # <<>> THEN "cl_delete"
                                        ELSE IF Converged(inv[p].ntSeen, inv[p].eipsSeen, FALSE)
                                             THEN "converged" ELSE "cl_sleep")]
    /\ UNCHANGED <<cloud, budget, client_cache>>

\* a handler that passes over a group in use only
DeleteErrorToleratedInUseOnly(code) == code = "DependencyViolation"
\* lines 938-946: the error codes of delete_security_group that are logged and
\* passed over
DeleteErrorTolerated(code) == code \in {"DependencyViolation", "InvalidGroup.NotFound"}

\* line 937: the answer of EC2 to delete_security_group(GroupId=s)
DeleteAnswer(s) ==
    IF sg[s].state # "present" THEN "InvalidGroup.NotFound"
    ELSE IF InUse(s) THEN "DependencyViolation" ELSE "ok"

\* lines 933-946: delete_security_group answered with code; a tolerated error
\* is logged and the loop goes on, any other error is raised again (line 946)
\* and leaves the handler; line 949 after the last group
DeleteGroup(p, code) ==
    /\ inv[p].pc = "cl_delete"
    /\ LET s == Head(inv[p].queue)
           rest == Tail(inv[p].queue)
       IN /\ sg' = [sg EXCEPT ![s].state = IF code = "ok" THEN "deleted" ELSE @]
          /\ inv' = [inv EXCEPT ![p] =
                       IF code = "ok" \/ DeleteErrorTolerated(code)
                       THEN Goto(Called([@ EXCEPT !.queue = rest], "delete_security_group"),
                                 IF rest # <<>> THEN "cl_delete"
                                 ELSE IF Converged(inv[p].ntSeen, inv[p].eipsSeen, inv[p].sgsSeen)
                                      THEN "converged" ELSE "cl_sleep")
                       ELSE Goto(Called([@ EXCEPT !.error = code], "delete_security_group"), "failed")]
    /\ UNCHANGED <<gw, inst, rt, eips, untagged, budget, client_cache>>

\* the delete of the next group, answered by the state of the account
CleanupDelete(p) ==
    /\ inv[p].pc = "cl_delete"
    /\ DeleteGroup(p, DeleteAnswer(Head(inv[p].queue)))

\* the delete of the next group refused for a reason of its own (the role may
\* not delete groups, the request was throttled)
CleanupDeleteFails(p) ==
    /\ inv[p].pc = "cl_delete"
    /\ \E code \in {"UnauthorizedOperation", "RequestLimitExceeded"} : DeleteGroup(p, code)

\* line 955: time.sleep(10), then the next iteration
CleanupSleep(p) ==
    /\ inv[p].pc = "cl_sleep"
    /\ inv' = [inv EXCEPT ![p] = Goto([@ EXCEPT !.slept = TRUE], "cl_list")]
    /\ UNCHANGED <<cloud, budget, client_cache>>

cleanup(p) ==
    \/ CleanupList(p)
    \/ CleanupTerminate(p)
    \/ CleanupListEips(p)
    \/ CleanupRelease(p)
    \/ CleanupListGroups(p)
    \/ CleanupDelete(p)
    \/ CleanupSleep(p)

(***************************************************************************)
(* Routes.  A route table holds the targets of its 0.0.0.0/0 routes; a      *)
(* target is an instance id or a gateway id.                                *)
(***************************************************************************)
\* route.get('InstanceId') / route.get('NatGatewayId') of the default route;
\* NoTag when the table has none or the key is missing
RouteInstanceId(r) == IF \E t \in rt[r].routes : t \in InstanceIds
                      THEN CHOOSE t \in rt[r].routes : t \in InstanceIds ELSE NoTag
RouteNatGatewayId(r) == IF \E t \in rt[r].routes : t \in DOMAIN gw
                        THEN CHOOSE t \in rt[r].routes : t \in DOMAIN gw ELSE NoTag

\* EC2's answer to replace_route: the table must hold the route to replace, an
\* InstanceId must name an instance that still has its network interface, a
\* NatGatewayId a gateway that is available
ReplaceRouteAccepted(r, kind, target) ==
    /\ r \in DOMAIN rt
    /\ rt[r].routes # {}
    /\ kind = "InstanceId" => target \in InstanceIds /\ inst[target].state \in {"running", "shutting-down"}
    /\ kind = "NatGatewayId" => target \in DOMAIN gw /\ gw[target].state = "available"

\* a replacement that deletes the old route and creates no new one
replace_route_delete(r, kind, target) ==
    IF ReplaceRouteAccepted(r, kind, target) THEN [rt EXCEPT ![r].routes = {}] ELSE rt
\* replace_route: one call puts the new target in the place of the old one
replace_route(r, kind, target) ==
    IF ReplaceRouteAccepted(r, kind, target) THEN [rt EXCEPT ![r].routes = {target}] ELSE rt

(***************************************************************************)
(* set_nat_instance_enabled(region, vpc_id, enabled)                        *)
(***************************************************************************)
\* lines 361-367 and 404-410: describe_route_tables filtered by vpc-id and tag-key
TablesWithInstanceTag(v) == {r \in DOMAIN rt : v = TheVpc /\ rt[r].instTag # NoTag}
TablesWithGatewayTag(v) == {r \in DOMAIN rt : v = TheVpc /\ rt[r].gwTag # NoTag}

\* an Enable that does not compare the route with the readiness tag
EnableAlwaysUpdates(r) == Truthy(rt[r].instTag)
\* an Enable that takes an empty readiness tag for an instance id
EnableIgnoresEmptyTag(r) == RouteInstanceId(r) # rt[r].instTag
\* lines 377-389: the readiness tag holds a value and the default route's
\* InstanceId is not that value
EnableNeedsUpdate(r) == Truthy(rt[r].instTag) /\ RouteInstanceId(r) # rt[r].instTag
\* lines 419-429: the default route's NatGatewayId is not the restore tag's value
DisableNeedsUpdate(r) == RouteNatGatewayId(r) # rt[r].gwTag

\* enabled: lines 361-389, describe_route_tables and the check of the table
EnableDescribe(p) ==
    /\ inv[p].pc = "en_describe"
    /\ IF TablesWithInstanceTag(inv[p].vpc) = {}
       THEN inv' = [inv EXCEPT ![p] = Goto(@, "returned")]
       ELSE \E r \in TablesWithInstanceTag(inv[p].vpc) :
              inv' = [inv EXCEPT ![p] = Goto([@ EXCEPT !.rtId = r, !.target = rt[r].instTag],
                                             IF EnableNeedsUpdate(r) THEN "en_replace" ELSE "returned")]
    /\ UNCHANGED <<cloud, budget, client_cache>>

\* an Enable that points every table carrying the readiness tag at the instance
EnableReplaceEveryTable(p) ==
    /\ inv[p].pc = "en_replace"
    /\ LET ok == ReplaceRouteAccepted(inv[p].rtId, "InstanceId", inv[p].target)
       IN /\ rt' = [r \in DOMAIN rt |->
                      IF r \in TablesWithInstanceTag(inv[p].vpc) /\ ReplaceRouteAccepted(r, "InstanceId", inv[p].target)
                      THEN [rt[r] EXCEPT !.routes = {inv[p].target}] ELSE rt[r]]
          /\ inv' = [inv EXCEPT ![p] = Goto(Called([@ EXCEPT !.routeOk = ok], "replace_route"),
                                            IF ok THEN "returned" ELSE "failed")]
    /\ UNCHANGED <<gw, inst, sg, eips, untagged, budget, client_cache>>

\* lines 390-394: replace_route(InstanceId=nat_instance_id); an error leaves
\* the handler
EnableReplace(p) ==
    /\ inv[p].pc = "en_replace"
    /\ LET ok == ReplaceRouteAccepted(inv[p].rtId, "InstanceId", inv[p].target)
       IN /\ rt' = replace_route(inv[p].rtId, "InstanceId", inv[p].target)
          /\ inv' = [inv EXCEPT ![p] = Goto(Called([@ EXCEPT !.routeOk = ok], "replace_route"),
                                            IF ok THEN "returned" ELSE "failed")]
    /\ UNCHANGED <<gw, inst, sg, eips, untagged, budget, client_cache>>

\* a Disable that goes to cleanup without looking at the route
DisableSkipsRestore(p) ==
    /\ inv[p].pc = "di_describe"
    /\ inv' = [inv EXCEPT ![p] = Goto(@, "cl_list")]
    /\ UNCHANGED <<cloud, budget, client_cache>>

\* disabled: lines 404-429; without a tagged table cleanup follows at once
DisableDescribe(p) ==
    /\ inv[p].pc = "di_describe"
    /\ IF TablesWithGatewayTag(inv[p].vpc) = {}
       THEN inv' = [inv EXCEPT ![p] = Goto(@, "cl_list")]
       ELSE \E r \in TablesWithGatewayTag(inv[p].vpc) :
              inv' = [inv EXCEPT ![p] = Goto([@ EXCEPT !.rtId = r, !.target = rt[r].gwTag],
                                             IF DisableNeedsUpdate(r) THEN "di_replace" ELSE "cl_list")]
    /\ UNCHANGED <<cloud, budget, client_cache>>

\* disabled, when describe_route_tables raises (the API throttles, the
\* credentials expire): the except branch of lines 438-441 logs the error and
\* cleanup follows at line 443
DisableLookupFails(p) ==
    /\ inv[p].pc = "di_describe"
    /\ inv' = [inv EXCEPT ![p] = Goto([@ EXCEPT !.lookupErr = TRUE], "cl_list")]
    /\ UNCHANGED <<cloud, budget, client_cache>>

\* a restore whose error leaves the handler, as in the enabled branch
DisableReplaceUncaught(p) ==
    /\ inv[p].pc = "di_replace"
    /\ LET ok == ReplaceRouteAccepted(inv[p].rtId, "NatGatewayId", inv[p].target)
       IN /\ rt' = replace_route(inv[p].rtId, "NatGatewayId", inv[p].target)
          /\ inv' = [inv EXCEPT ![p] = Goto(Called([@ EXCEPT !.routeOk = ok], "replace_route"),
                                            IF ok THEN "cl_list" ELSE "failed")]
    /\ UNCHANGED <<gw, inst, sg, eips, untagged, budget, client_cache>>

\* lines 431-441: replace_route(NatGatewayId=nat_gateway_id); an error is logged
\* (line 441) and cleanup follows either way (line 443)
DisableReplace(p) ==
    /\ inv[p].pc = "di_replace"
    /\ LET ok == ReplaceRouteAccepted(inv[p].rtId, "NatGatewayId", inv[p].target)
       IN /\ rt' = replace_route(inv[p].rtId, "NatGatewayId", inv[p].target)
          /\ inv' = [inv EXCEPT ![p] = Goto(Called([@ EXCEPT !.routeOk = ok], "replace_route"), "cl_list")]
    /\ UNCHANGED <<gw, inst, sg, eips, untagged, budget, client_cache>>

set_nat_instance_enabled(p) ==
    \/ EnableDescribe(p)
    \/ EnableReplace(p)
    \/ DisableDescribe(p)
    \/ DisableReplace(p)

(***************************************************************************)
(* handle_create_nat_gateway and create_nat_instance                        *)
(***************************************************************************)
\* len(NAT_INSTANCES_INFO), lines 143-148
NumCandidates == 4
\* range(24), line 628
PollAttempts == 24

\* line 544: GroupName=f"{public_subnet_name}-ci-nat-sg"
GroupName(subnetName) == subnetName \o "-ci-nat-sg"

\* the Name tag of the gateway's public subnet
PublicSubnetName(g) == "subnet-" \o g

\* the ids the account hands out next
FreshNat == NatId(CHOOSE n \in 1..MaxNat : inst[NatId(n)].state = "absent" /\ \A m \in 1..(n - 1) : inst[NatId(m)].state # "absent")
FreshSg == SgId(CHOOSE n \in 1..MaxSg : sg[SgId(n)].state = "absent" /\ \A m \in 1..(n - 1) : sg[SgId(m)].state # "absent")

\* a wait that makes one poll more
PollGoesOnOnceMore(attempts) == attempts <= PollAttempts
\* line 628, for attempt in range(24): another poll is made
PollGoesOn(attempts) == attempts < PollAttempts

\* lines 627-640: one pass of the wait loop, a describe_route_tables call for
\* the private subnet.  A table that is associated ends the loop with its id
\* (lines 631-634); otherwise the pass sleeps 10 seconds (line 637) and the
\* loop goes on while attempts are left; after the last one
\* private_route_table_id stays None and the function goes on (line 642).
\* poll is the number of describe calls that found nothing; the loop that
\* found a table is left by break and its counter is read no more.
ProvisionPoll(p) ==
    /\ inv[p].pc = "ci_poll"
    /\ IF \E r \in RouteTableIds : rt[r].assoc
       THEN \E r \in RouteTableIds :
              /\ rt[r].assoc
              /\ inv' = [inv EXCEPT ![p] = Goto([@ EXCEPT !.rtId = r, !.poll = 0], "ci_sg")]
       ELSE inv' = [inv EXCEPT ![p] = Goto([@ EXCEPT !.poll = @ + 1],
                                           IF PollGoesOn(inv[p].poll + 1) THEN "ci_poll" ELSE "ci_sg")]
    /\ UNCHANGED <<cloud, budget, client_cache>>

\* a group created without the tag that names its network
CreatedGroupWithoutNetworkTag(name, v, g) ==
    [state |-> "present", name |-> name, vpc |-> v, gwTag |-> g, vpcTag |-> NoTag]
\* lines 543-554, create_security_group(GroupName, VpcId, TagSpecifications):
\* the group exists with ci-nat-gateway and ci-nat-vpc from its creation
CreatedGroup(name, v, g) ==
    [state |-> "present", name |-> name, vpc |-> v, gwTag |-> g, vpcTag |-> v]

\* a network that accepts a second group of the same name
CreateGroupAlwaysAccepted(name) == TRUE
\* lines 543-554: EC2 refuses a second group of the same name in the network
\* (InvalidGroup.Duplicate)
CreateGroupAccepted(name) == ~\E s \in SgIds : sg[s].state = "present" /\ sg[s].name = name

\* lines 642-645, create_nat_security_group (the two ingress rules are part of
\* the step).  Without a route table id the tag value None of line 694 is
\* refused by the client before run_instances sends anything.
ProvisionGroup(p) ==
    /\ inv[p].pc = "ci_sg"
    /\ LET name == GroupName(PublicSubnetName(inv[p].subj))
       IN IF CreateGroupAccepted(name)
          THEN /\ \E s \in SgIds : sg[s].state = "absent"
               /\ sg' = [sg EXCEPT ![FreshSg] = CreatedGroup(name, inv[p].vpc, inv[p].subj)]
               /\ inv' = [inv EXCEPT ![p] = Goto(Called([@ EXCEPT !.sgId = FreshSg, !.idx = 1], "create_security_group"),
                                                 IF inv[p].rtId = NoTag THEN "failed" ELSE "ci_launch")]
          ELSE /\ sg' = sg
               /\ inv' = [inv EXCEPT ![p] = Goto(Called(@, "create_security_group"), "failed")]
    /\ UNCHANGED <<gw, inst, rt, eips, untagged, budget, client_cache>>

\* an instance launched with the subnet's Name in the place of its id
LaunchedInstanceTaggedByName(v, g, r, s) ==
    [state |-> "running", elig |-> FALSE, role |-> NoTag, name |-> InstanceName(PublicSubnetName(g)), vpc |-> v, vpcTag |-> v,
     gwTag |-> g, subnetTag |-> PublicSubnetName(g), rtTag |-> r, sg |-> s, boot |-> "start", hook |-> "armed"]
\* lines 681-705: the instance run_instances launches and its tags
LaunchedInstance(v, g, r, s) ==
    [state |-> "running", elig |-> FALSE, role |-> NoTag, name |-> InstanceName(PublicSubnetName(g)), vpc |-> v, vpcTag |-> v,
     gwTag |-> g, subnetTag |-> PublicSubnetId(g), rtTag |-> r, sg |-> s, boot |-> "start", hook |-> "armed"]

\* lines 142-147: the candidates in priority order, each instance type with
\* the parameter that names its image
NAT_INSTANCES_INFO ==
    << [instance_type |-> "t4g.micro", ami_parameter |-> "amzn2-ami-hvm-arm64-gp2"],
       [instance_type |-> "t3a.micro", ami_parameter |-> "amzn2-ami-hvm-x86_64-gp2"],
       [instance_type |-> "t3.micro", ami_parameter |-> "amzn2-ami-hvm-x86_64-gp2"],
       [instance_type |-> "t2.micro", ami_parameter |-> "amzn2-ami-hvm-x86_64-gp2"] >>

\* ssm.get_parameter: the image a parameter names
ImageOf(parameter) == "ami:" \o parameter

\* lines 212-220, get_latest_amazon_linux2_ami: the key of the cache is the
\* region alone, so the parameter is resolved only while the process has no
\* image cached; the result is the image returned and the cache left behind
get_latest_amazon_linux2_ami(cache, nat_instance_idx) ==
    IF cache = NoTag
    THEN LET ami == ImageOf(NAT_INSTANCES_INFO[nat_instance_idx].ami_parameter)
         IN [ami |-> ami, cache |-> ami]
    ELSE [ami |-> cache, cache |-> cache]

\* a loop that moves on to the next candidate after any error
LaunchAdvancesOnAnyError(code) == code # "ok"
\* lines 710-713: the error code that moves the loop on to the next candidate
LaunchAdvances(code) == code = "Unsupported"

\* lines 655-715: one pass of the launch loop, the attempt with candidate idx.
\* The attempt looks its image up first (line 658).  run_instances launches
\* ("ok", line 708 and break), or answers "Unsupported" and the loop moves on
\* to the next candidate, or raises another error that leaves the function;
\* after the last candidate the loop ends with nat_instance None.  A group
\* that is gone makes the attempt raise.  ami is the image of the last
\* attempt and launchErr the error code that moved the loop on.
ProvisionLaunch(p) ==
    /\ inv[p].pc = "ci_launch"
    /\ \E outcome \in {"ok", "Unsupported", "error"} :
         LET res == IF sg[inv[p].sgId].state # "present" THEN "error" ELSE outcome
             lookup == get_latest_amazon_linux2_ami(client_cache[p], inv[p].idx)
         IN /\ client_cache' = [client_cache EXCEPT ![p] = lookup.cache]
            /\ CASE res = "ok" ->
                   /\ \E i \in NatIds : inst[i].state = "absent"
                   /\ inst' = [inst EXCEPT ![FreshNat] = LaunchedInstance(inv[p].vpc, inv[p].subj, inv[p].rtId, inv[p].sgId)]
                   /\ inv' = [inv EXCEPT ![p] = Goto(Called([@ EXCEPT !.newInst = FreshNat, !.ami = lookup.ami], "run_instances"),
                                                     "ci_tag_rt")]
              [] LaunchAdvances(res) ->
                   /\ inst' = inst
                   /\ inv' = [inv EXCEPT ![p] =
                                IF inv[p].idx < NumCandidates
                                THEN Goto(Called([@ EXCEPT !.idx = @ + 1, !.ami = lookup.ami, !.launchErr = res], "run_instances"),
                                          "ci_launch")
                                ELSE Goto(Called([@ EXCEPT !.ami = lookup.ami, !.launchErr = res], "run_instances"),
                                          "ci_tag_rt")]
              [] OTHER ->
                   /\ inst' = inst
                   /\ inv' = [inv EXCEPT ![p] = Goto(Called(@, "run_instances"), "failed")]
    /\ UNCHANGED <<gw, rt, sg, eips, untagged, budget>>

\* lines 721-735: create_tags on the route table, after the launch loop whether
\* or not it launched; line 500 then fails on None when nothing was launched
ProvisionTagRouteTable(p) ==
    /\ inv[p].pc = "ci_tag_rt"
    /\ rt' = [rt EXCEPT ![inv[p].rtId] = [@ EXCEPT !.gwTag = inv[p].subj, !.vpcTag = inv[p].vpc]]
    /\ inv' = [inv EXCEPT ![p] = Goto(Called(@, "create_tags"),
                                      IF inv[p].newInst = NoTag THEN "failed" ELSE "hc_tag_gw")]
    /\ UNCHANGED <<gw, inst, sg, eips, untagged, budget, client_cache>>

\* a handler that tags the gateway with the id the account hands out next
ProvisionTagNextOnGateway(p) ==
    /\ inv[p].pc = "hc_tag_gw"
    /\ gw' = [gw EXCEPT ![inv[p].subj].instTag = NatId(MaxNat)]
    /\ inv' = [inv EXCEPT ![p] = Goto(Called(@, "create_tags"), "returned")]
    /\ UNCHANGED <<inst, rt, sg, eips, untagged, budget, client_cache>>
\* lines 500-502: set_tag(gateway, ci-nat-instance, new instance id)
ProvisionTagInstanceOnGateway(p) ==
    /\ inv[p].pc = "hc_tag_gw"
    /\ gw' = [gw EXCEPT ![inv[p].subj].instTag = inv[p].newInst]
    /\ inv' = [inv EXCEPT ![p] = Goto(Called(@, "create_tags"), "returned")]
    /\ UNCHANGED <<inst, rt, sg, eips, untagged, budget, client_cache>>

handle_create_nat_gateway(p) ==
    \/ ProvisionPoll(p)
    \/ ProvisionGroup(p)
    \/ ProvisionLaunch(p)
    \/ ProvisionTagRouteTable(p)
    \/ ProvisionTagInstanceOnGateway(p)

(***************************************************************************)
(* lambda_handler(event, context).  An invocation begins with the step of   *)
(* its first call.                                                          *)
(***************************************************************************)
\* lines 240, 258, 283, 317: the event names lambda_handler has a branch for
KindsOfEvent == {"CreateNatGateway", "DeleteNatGateway", "RunInstances", "TerminateInstances"}
\* event names it has no branch for; NoTag is an event without eventName
OtherEventNames == {"StopInstances", NoTag}

\* the lowest slot that runs no invocation takes the next one
FreeSlot(p) == ~Running(p) /\ \A q \in 1..(p - 1) : Running(q)

\* a gate that does not ask for ci-nat-replace=true
CreateNatGatewayProceedsUntagged(tagElig, tagInst) == tagInst = NoTag
\* lines 248-253: the tagSet of the event has ci-nat-replace=true and no
\* ci-nat-instance tag
CreateNatGatewayProceeds(tagElig, tagInst) == tagElig /\ tagInst = NoTag
\* a gate that lets the Name admit an instance whose role tag names another role
RunInstancesProceedsByName(tagElig, role, name) ==
    tagElig /\ (role \in {"master", "control-plane"} \/ Contains(name, "-master"))
\* lines 294-302: ci-nat-replace=true and a control-plane member: the role tag
\* decides when it has a value, the Name tag otherwise
RunInstancesProceeds(tagElig, role, name) ==
    /\ tagElig
    /\ ~ \/ Truthy(role) /\ role \notin {"master", "control-plane"}
         \/ ~Truthy(role) /\ (~Truthy(name) \/ ~Contains(name, "-master"))
\* a gate that does not ask for ci-nat-vpc
DeleteNatGatewayProceedsOnReplace(tagElig, tagVpc) == tagElig
\* lines 269-280: ci-nat-replace=true and a ci-nat-vpc tag with a value
DeleteNatGatewayProceeds(tagElig, tagVpc) == tagElig /\ Truthy(tagVpc)
\* a gate that does not look at the Name
TerminateInstancesProceedsOnTag(tagVpc, name) == Truthy(tagVpc)
\* lines 330-336: a ci-nat-vpc tag with a value, and no '-bootstrap' in the Name
TerminateInstancesProceeds(tagVpc, name) == Truthy(tagVpc) /\ ~(Truthy(name) /\ Contains(name, "-bootstrap"))

Started(ev, subj, elig, vpc) == [IdleInv EXCEPT !.ev = ev, !.subj = subj, !.elig = elig, !.vpc = vpc]

\* the tagSet of a CreateNatGateway event is CloudTrail's record of the call's
\* response: the tags the gateway was created with, at every delivery
EventInstanceTag(g) == NoTag

\* str.lower(), line 484
UpperCase == "ABCDEFGHIJKLMNOPQRSTUVWXYZ"
LowerCase == "abcdefghijklmnopqrstuvwxyz"
LowerOf(c) ==
    IF \E k \in 1..Len(UpperCase) : SubSeq(UpperCase, k, k) = c
    THEN LET k == CHOOSE k \in 1..Len(UpperCase) : SubSeq(UpperCase, k, k) = c
         IN SubSeq(LowerCase, k, k)
    ELSE c
RECURSIVE Lower(_)
Lower(s) == IF Len(s) = 0 THEN "" ELSE LowerOf(SubSeq(s, 1, 1)) \o Lower(SubSeq(s, 2, Len(s)))

TheZone == "us-east-1a"
OtherZone == "us-east-1b"

\* a subnet of the account: id, vpc, az and the value of its Name tag
Subnet(id, az, name) == [id |-> id, vpc |-> TheVpc, az |-> az, name |-> name]
\* the subnets the installer makes for the zone of the gateway
InstallerSubnets ==
    {Subnet(PublicSubnetId(g), TheZone, PublicSubnetName(g)) : g \in GatewayIds}
      \cup {Subnet("subnet-private-1", TheZone, "c1-private-us-east-1a")}
\* the subnets an account may hold when the event arrives
SubnetListings ==
    SUBSET (InstallerSubnets
              \cup {Subnet("subnet-private-2", TheZone, "c1-PRIVATE-us-east-1a"),
                    Subnet("subnet-private-3", OtherZone, "c1-private-us-east-1b"),
                    Subnet("subnet-other-1", TheZone, NoTag)})

\* lines 461-463: describe_subnets with the filter subnet-id
DescribeSubnetsById(subnets, id) == {s \in subnets : s.id = id}
\* lines 473-478: describe_subnets with the filters vpc-id and availability-zone
DescribeSubnetsInZone(subnets, vpc, az) == {s \in subnets : s.vpc = vpc /\ s.az = az}

\* a search that compares the Name as it is written
PrivateSubnetsCaseSensitive(subnets, public_subnet_id) ==
    LET found == DescribeSubnetsById(subnets, public_subnet_id)
    IN IF found = {} THEN {}
       ELSE LET public_subnet == CHOOSE s \in found : TRUE
            IN {s \in DescribeSubnetsInZone(subnets, public_subnet.vpc, public_subnet.az) :
                  Truthy(s.name) /\ Contains(s.name, "-private")}
\* lines 461-490: the subnets the search for the private subnet may take (it
\* takes the first listed); none when the public subnet is not described
\* (lines 465-467) or no subnet of its network and zone has a Name that holds
\* "-private" in lower case
PrivateSubnets(subnets, public_subnet_id) ==
    LET found == DescribeSubnetsById(subnets, public_subnet_id)
    IN IF found = {} THEN {}
       ELSE LET public_subnet == CHOOSE s \in found : TRUE
            IN {s \in DescribeSubnetsInZone(subnets, public_subnet.vpc, public_subnet.az) :
                  Truthy(s.name) /\ Contains(Lower(s.name), "-private")}

\* lines 240-256, handle_create_nat_gateway up to line 490 and lines 614-622
\* of create_nat_instance: the gates, the search for the private subnet in
\* the subnets the account holds, which returns None without one (lines 467
\* and 490), and create_tags on the gateway, ci-nat-vpc
CreateNatGatewayEvent(p, g, subnets) ==
    /\ FreeSlot(p) /\ budget > 0
    /\ gw[g].state # "absent"
    /\ LET r == [Started("CreateNatGateway", g, gw[g].elig, TheVpc) EXCEPT !.atStart = gw[g].instTag]
       IN IF CreateNatGatewayProceeds(gw[g].elig, EventInstanceTag(g))
          THEN IF PrivateSubnets(subnets, PublicSubnetId(g)) = {}
               THEN /\ gw' = gw
                    /\ inv' = [inv EXCEPT ![p] = Goto([r EXCEPT !.subnets = subnets], "returned")]
               ELSE /\ gw' = [gw EXCEPT ![g].vpcTag = TheVpc]
                    /\ inv' = [inv EXCEPT ![p] = Goto(Called([r EXCEPT !.subnets = subnets], "create_tags"), "ci_poll")]
          ELSE /\ gw' = gw
               /\ inv' = [inv EXCEPT ![p] = Goto(r, "returned")]
    /\ budget' = budget - 1
    /\ UNCHANGED <<inst, rt, sg, eips, untagged, client_cache>>

\* the event arrives in the account the installer has set up
DeliverCreateNatGateway(p, g) == CreateNatGatewayEvent(p, g, InstallerSubnets)

\* the event arrives in an account with any subnets
DeliverCreateNatGatewayAnySubnets(p, g) ==
    \E subnets \in SubnetListings : CreateNatGatewayEvent(p, g, subnets)

\* lines 258-281: the DeleteNatGateway call was made; describe_nat_gateways and
\* the two gates
DeliverDeleteNatGateway(p, g) ==
    /\ FreeSlot(p) /\ budget > 0
    /\ gw[g].state = "deleted"
    /\ inv' = [inv EXCEPT ![p] = Goto([Started("DeleteNatGateway", g, gw[g].elig, gw[g].vpcTag) EXCEPT !.described = TRUE],
                                      IF DeleteNatGatewayProceeds(gw[g].elig, gw[g].vpcTag)
                                      THEN "cl_list" ELSE "returned")]
    /\ budget' = budget - 1
    /\ UNCHANGED <<cloud, client_cache>>

\* lines 289-315: the loop over the instances of the event; every path of its
\* first pass ends in return, so the first listed instance is the one examined
RunInstancesSubject(items) == Head(items)

\* lines 283-315: the instances of the event and their tagSet; the gates on
\* the instance examined, then line 310, set_tag(instance, ci-nat-vpc,
\* vpc_id), and Enable (line 314)
RunInstancesEvent(p, items) ==
    /\ FreeSlot(p) /\ budget > 0
    /\ items # <<>> /\ \A k \in 1..Len(items) : inst[items[k]].state # "absent"
    /\ LET i == RunInstancesSubject(items)
           r == [Started("RunInstances", i, inst[i].elig, inst[i].vpc) EXCEPT !.items = items]
       IN IF RunInstancesProceeds(inst[i].elig, inst[i].role, inst[i].name)
          THEN /\ inst' = [inst EXCEPT ![i].vpcTag = inst[i].vpc]
               /\ inv' = [inv EXCEPT ![p] = Goto(Called(r, "create_tags"), "en_describe")]
          ELSE /\ inst' = inst
               /\ inv' = [inv EXCEPT ![p] = Goto(r, "returned")]
    /\ budget' = budget - 1
    /\ UNCHANGED <<gw, rt, sg, eips, untagged, client_cache>>

\* the event of a call that launched one instance
DeliverRunInstances(p, i) == RunInstancesEvent(p, <<i>>)

\* a handler that passes over a listed instance without the network tag
TerminateInstancesSubjectFirstTagged(items) ==
    IF \E k \in 1..Len(items) : Truthy(inst[items[k]].vpcTag)
    THEN items[CHOOSE k \in 1..Len(items) :
                 Truthy(inst[items[k]].vpcTag) /\ \A j \in 1..(k - 1) : ~Truthy(inst[items[j]].vpcTag)]
    ELSE Head(items)
\* lines 322-342: the loop over the instances of the event; describe_instances
\* returns the first listed instance, and every path of the pass for it ends
\* in return
TerminateInstancesSubject(items) == Head(items)

\* lines 317-342: a TerminateInstances call was made for the instances;
\* describe_instances and the two gates on the instance examined, then Disable
TerminateInstancesEvent(p, items) ==
    /\ FreeSlot(p) /\ budget > 0
    /\ items # <<>> /\ \A k \in 1..Len(items) : inst[items[k]].state \in {"shutting-down", "terminated"}
    /\ LET i == TerminateInstancesSubject(items)
       IN inv' = [inv EXCEPT ![p] =
                    Goto([Started("TerminateInstances", i, inst[i].elig, inst[i].vpcTag)
                            EXCEPT !.described = TRUE, !.items = items],
                         IF TerminateInstancesProceeds(inst[i].vpcTag, inst[i].name)
                         THEN "di_describe" ELSE "returned")]
    /\ budget' = budget - 1
    /\ UNCHANGED <<cloud, client_cache>>

\* the event of a call that terminated one instance
DeliverTerminateInstances(p, i) == TerminateInstancesEvent(p, <<i>>)

\* lines 240, 258, 283, 317: the branch of the event's name
Deliver(p) ==
    \/ \E g \in GatewayIds : DeliverCreateNatGateway(p, g) \/ DeliverDeleteNatGateway(p, g)
    \/ \E i \in InstanceIds : DeliverRunInstances(p, i) \/ DeliverTerminateInstances(p, i)

\* the calls of an invocation after its first
Handle(p) ==
    \/ handle_create_nat_gateway(p)
    \/ set_nat_instance_enabled(p)
    \/ cleanup(p)

lambda_handler(p) == Deliver(p) \/ Handle(p)

\* a handler without the gate of line 236: the event of a TerminateInstances
\* call that failed is handled as if the call had been made
DeliverFailedCallUngated(p, ev, subj) ==
    /\ FreeSlot(p) /\ budget > 0
    /\ LET r == [Started(ev, subj, FALSE, NoTag) EXCEPT !.apiError = TRUE]
       IN inv' = [inv EXCEPT ![p] =
                    IF ev = "TerminateInstances" /\ subj \in InstanceIds /\ inst[subj].state # "absent"
                    THEN Goto([r EXCEPT !.described = TRUE, !.vpc = inst[subj].vpcTag],
                              IF TerminateInstancesProceeds(inst[subj].vpcTag, inst[subj].name)
                              THEN "di_describe" ELSE "returned")
                    ELSE Goto(r, "returned")]
    /\ budget' = budget - 1
    /\ UNCHANGED <<cloud, client_cache>>

\* lines 236-238: the event of an API call that failed, which carries
\* errorCode or errorMessage, is skipped whatever its name and its resource
DeliverFailedCall(p, ev, subj) ==
    /\ FreeSlot(p) /\ budget > 0
    /\ inv' = [inv EXCEPT ![p] = Goto([Started(ev, subj, FALSE, NoTag) EXCEPT !.apiError = TRUE], "returned")]
    /\ budget' = budget - 1
    /\ UNCHANGED <<cloud, client_cache>>

\* lines 240-342: an event name that matches no branch of the if/elif chain
DeliverOtherEvent(p, ev, subj) ==
    /\ FreeSlot(p) /\ budget > 0
    /\ inv' = [inv EXCEPT ![p] = Goto(Started(ev, subj, FALSE, NoTag), "returned")]
    /\ budget' = budget - 1
    /\ UNCHANGED <<cloud, client_cache>>

(***************************************************************************)
(* get_nat_instance_user_data: what the instance runs at boot, and the      *)
(* shutdown hook it installs.                                               *)
(***************************************************************************)
\* line 833: modify-instance-attribute --no-source-dest-check; on failure the
\* script touches neither tag nor route
BootSourceDestCheck(i) ==
    /\ inst[i].state = "running" /\ inst[i].boot = "start"
    /\ \E ok \in BOOLEAN : inst' = [inst EXCEPT ![i].boot = IF ok THEN "line837" ELSE "gaveup"]
    /\ UNCHANGED <<gw, rt, sg, eips, untagged, inv, budget, client_cache>>

\* line 837: create-tags Key=ci-nat-instance, Value=<the gateway id>
BootRecordGateway(i) ==
    /\ inst[i].state = "running" /\ inst[i].boot = "line837"
    /\ rt' = [rt EXCEPT ![inst[i].rtTag].instTag = inst[i].gwTag]
    /\ inst' = [inst EXCEPT ![i].boot = "line840"]
    /\ UNCHANGED <<gw, sg, eips, untagged, inv, budget, client_cache>>

\* a script that goes on to line 842 whatever replace-route answered
BootReplaceRouteUnchecked(i) ==
    /\ inst[i].state = "running" /\ inst[i].boot = "line840"
    /\ rt' = replace_route(inst[i].rtTag, "InstanceId", i)
    /\ inst' = [inst EXCEPT ![i].boot = "line842"]
    /\ UNCHANGED <<gw, sg, eips, untagged, inv, budget, client_cache>>
\* line 840: replace-route --instance-id $INSTANCE_ID
BootReplaceRoute(i) ==
    /\ inst[i].state = "running" /\ inst[i].boot = "line840"
    /\ rt' = replace_route(inst[i].rtTag, "InstanceId", i)
    /\ inst' = [inst EXCEPT ![i].boot = IF ReplaceRouteAccepted(inst[i].rtTag, "InstanceId", i) THEN "line842" ELSE "gaveup"]
    /\ UNCHANGED <<gw, sg, eips, untagged, inv, budget, client_cache>>

\* line 842: create-tags Key=ci-nat-instance, Value=$INSTANCE_ID
BootTagReady(i) ==
    /\ inst[i].state = "running" /\ inst[i].boot = "line842"
    /\ rt' = [rt EXCEPT ![inst[i].rtTag].instTag = i]
    /\ inst' = [inst EXCEPT ![i].boot = "ready"]
    /\ UNCHANGED <<gw, sg, eips, untagged, inv, budget, client_cache>>

\* line 804, at a graceful shutdown: create-tags Key=ci-nat-instance, Value=""
HookClearTag(i) ==
    /\ inst[i].state = "shutting-down" /\ inst[i].hook = "armed"
    /\ rt' = [rt EXCEPT ![inst[i].rtTag].instTag = EmptyTag]
    /\ inst' = [inst EXCEPT ![i].hook = "line806"]
    /\ UNCHANGED <<gw, sg, eips, untagged, inv, budget, client_cache>>

\* line 806: replace-route --nat-gateway-id <the gateway id>
HookRestoreRoute(i) ==
    /\ inst[i].state = "shutting-down" /\ inst[i].hook = "line806"
    /\ rt' = replace_route(inst[i].rtTag, "NatGatewayId", inst[i].gwTag)
    /\ inst' = [inst EXCEPT ![i].hook = "done"]
    /\ UNCHANGED <<gw, sg, eips, untagged, inv, budget, client_cache>>

get_nat_instance_user_data(i) ==
    \/ BootSourceDestCheck(i)
    \/ BootRecordGateway(i)
    \/ BootReplaceRoute(i)
    \/ BootTagReady(i)
    \/ HookClearTag(i)
    \/ HookRestoreRoute(i)

(***************************************************************************)
(* The installer of the cluster, which owns the gateway, the route table   *)
(* and the cluster's instances.                                             *)
(***************************************************************************)
InstallerAssociate(r) ==
    /\ ~rt[r].assoc
    /\ rt' = [rt EXCEPT ![r].assoc = TRUE]
    /\ UNCHANGED <<gw, inst, sg, eips, untagged, inv, budget, client_cache>>

InstallerCreateRoute(r, g) ==
    /\ rt[r].assoc /\ rt[r].routes = {} /\ gw[g].state = "available"
    /\ rt' = [rt EXCEPT ![r].routes = {g}]
    /\ UNCHANGED <<gw, inst, sg, eips, untagged, inv, budget, client_cache>>

InstallerRunInstance(i) ==
    /\ i \in ClusterIds /\ inst[i].state = "absent"
    /\ inst' = [inst EXCEPT ![i] = [NoInstance EXCEPT !.state = "running", !.role = "master", !.name = "c1-master-0", !.vpc = TheVpc,
                                                      !.elig = gw["nat-1"].elig]]
    /\ UNCHANGED <<gw, rt, sg, eips, untagged, inv, budget, client_cache>>

InstallerTerminateInstance(i) ==
    /\ i \in ClusterIds /\ inst[i].state = "running"
    /\ inst' = [inst EXCEPT ![i].state = "shutting-down"]
    /\ UNCHANGED <<gw, rt, sg, eips, untagged, inv, budget, client_cache>>

InstallerDeleteGateway(g) ==
    /\ gw[g].state = "available"
    /\ gw' = [gw EXCEPT ![g].state = "deleted"]
    /\ UNCHANGED <<inst, rt, sg, eips, untagged, inv, budget, client_cache>>

Installer ==
    \/ \E r \in RouteTableIds : InstallerAssociate(r) \/ \E g \in GatewayIds : InstallerCreateRoute(r, g)
    \/ \E i \in ClusterIds : InstallerRunInstance(i) \/ InstallerTerminateInstance(i)
    \/ \E g \in GatewayIds : InstallerDeleteGateway(g)

(***************************************************************************)
(* The cloud's own steps.                                                   *)
(***************************************************************************)
\* an instance asked to terminate reaches the terminated state
InstanceTerminated(i) ==
    /\ inst[i].state = "shutting-down"
    /\ inst' = [inst EXCEPT ![i].state = "terminated"]
    /\ UNCHANGED <<gw, rt, sg, eips, untagged, inv, budget, client_cache>>

(***************************************************************************)
(* configure_nat_instance_network(ec2_client, nat_gateway_id,               *)
(* nat_instance_id): called by main() once the instance is running.  An     *)
(* instance without a public address gets an address allocation, which is   *)
(* allocated, then associated, then tagged, by three calls.                 *)
(***************************************************************************)
\* an allocation id the account does not hold
FreshEips == EipIds \ (eips \cup untagged)

\* lines 959-976: describe the instance, switch its source/destination check
\* off, return if it has a public address
ConfigureInvoke(p, i) ==
    /\ FreeSlot(p)
    /\ inst[i].state = "running"
    /\ \E hasPublicIp \in BOOLEAN :
         inv' = [inv EXCEPT ![p] = Goto(Called([Started("configure", i, TRUE, inst[i].vpc) EXCEPT !.target = inst[i].gwTag],
                                               "modify_instance_attribute"),
                                        IF hasPublicIp THEN "returned" ELSE "cn_allocate")]
    /\ UNCHANGED <<cloud, budget, client_cache>>

\* line 979: allocate_address(Domain='vpc'); the account's address limit may
\* be reached
ConfigureAllocate(p) ==
    /\ inv[p].pc = "cn_allocate"
    /\ IF FreshEips = {}
       THEN /\ inv' = [inv EXCEPT ![p] = Goto(@, "failed")]
            /\ UNCHANGED <<untagged, client_cache>>
       ELSE LET e == CHOOSE e \in FreshEips : TRUE
            IN /\ untagged' = untagged \cup {e}
               /\ inv' = [inv EXCEPT ![p] = Goto(Called([@ EXCEPT !.alloc = e], "allocate_address"), "cn_associate")]
    /\ UNCHANGED <<gw, inst, rt, sg, eips, budget, client_cache>>

\* lines 984-987: associate_address; it is refused when the instance is no
\* longer running
ConfigureAssociate(p) ==
    /\ inv[p].pc = "cn_associate"
    /\ inv' = [inv EXCEPT ![p] = Goto(Called(@, "associate_address"),
                                      IF inst[inv[p].subj].state = "running" THEN "cn_tag" ELSE "failed")]
    /\ UNCHANGED <<cloud, budget, client_cache>>

\* lines 991-1003: create_tags on the allocation with ci-nat-gateway and
\* ci-nat-vpc
ConfigureTag(p) ==
    /\ inv[p].pc = "cn_tag"
    /\ LET e == inv[p].alloc
       IN /\ untagged' = untagged \ {e}
          /\ eips' = IF e \in untagged /\ inv[p].vpc = TheVpc THEN eips \cup {e} ELSE eips
    /\ inv' = [inv EXCEPT ![p] = Goto(Called(@, "create_tags"), "returned")]
    /\ UNCHANGED <<gw, inst, rt, sg, budget, client_cache>>

configure_nat_instance_network(p) ==
    \/ \E i \in NatIds : ConfigureInvoke(p, i)
    \/ ConfigureAllocate(p)
    \/ ConfigureAssociate(p)
    \/ ConfigureTag(p)

(***************************************************************************)
(* Teardown alone: cleanup invoked again and again, by concurrent           *)
(* invocations, on a network that holds N tagged instances, M tagged        *)
(* allocations and K tagged security groups.                                *)
(***************************************************************************)
TeardownInit ==
    /\ gw = [g \in GatewayIds |-> [state |-> "available", elig |-> TRUE, vpcTag |-> TheVpc, instTag |-> NoTag]]
    /\ rt = [r \in RouteTableIds |-> [NoRouteTable EXCEPT !.assoc = TRUE, !.routes = {"nat-1"}]]
    /\ \E states \in [1..MaxNat -> {"absent", "running", "shutting-down", "terminated"}] :
         inst = [i \in InstanceIds |->
                   IF \E n \in 1..MaxNat : i = NatId(n) /\ states[n] # "absent"
                   THEN LET n == CHOOSE n \in 1..MaxNat : i = NatId(n)
                        IN NatInstance(states[n], "nat-1", IF n <= MaxSg THEN SgId(n) ELSE NoTag)
                   ELSE NoInstance]
    \* a group per availability zone, named after the zone's public subnet
    /\ \E present \in SUBSET (1..MaxSg) :
         sg = [s \in SgIds |-> LET n == CHOOSE n \in 1..MaxSg : s = SgId(n)
                               IN [CreatedGroup(GroupName("subnet-" \o ToString(n)), TheVpc, "nat-1")
                                     EXCEPT !.state = IF n \in present THEN "present" ELSE "absent"]]
    \* the group of an instance that is not terminated exists: it cannot be deleted
    /\ \A n \in 1..MaxNat : (n <= MaxSg /\ inst[NatId(n)].state \in {"running", "shutting-down"}) => sg[SgId(n)].state = "present"
    /\ eips \in SUBSET EipIds
    /\ untagged = {}
    /\ inv = [p \in Invs |-> IdleInv]
    /\ budget = 0
    /\ client_cache = [p \in Invs |-> NoTag]

\* one more invocation of cleanup for the network
TeardownInvoke(p) ==
    /\ FreeSlot(p)
    /\ inv' = [inv EXCEPT ![p] = [IdleInv EXCEPT !.pc = "cl_list", !.ev = "cleanup", !.vpc = TheVpc,
                                                 !.startedEmpty = NetworkEmpty(TheVpc)]]
    /\ UNCHANGED <<cloud, budget, client_cache>>

TeardownNext ==
    \/ \E p \in Invs : TeardownInvoke(p) \/ cleanup(p)
    \/ \E i \in InstanceIds : InstanceTerminated(i)

SpecTeardown == TeardownInit /\ [][TeardownNext]_vars

(***************************************************************************)
(* Teardown in an account that holds two networks: the network of the      *)
(* cluster, with its control-plane node and possibly a NAT instance, and    *)
(* the network of another cluster with its own NAT instance, group and      *)
(* allocation.                                                              *)
(***************************************************************************)
\* a control-plane node of the network v, launched with the group s
NodeInstance(v, s) ==
    [NoInstance EXCEPT !.state = "running", !.elig = TRUE, !.role = "master", !.name = "c1-master-0",
                       !.vpc = v, !.vpcTag = v, !.sg = s]

FrameInit ==
    /\ gw = [g \in GatewayIds |-> [state |-> "available", elig |-> TRUE, vpcTag |-> TheVpc, instTag |-> NoTag]]
    /\ rt = [r \in RouteTableIds |-> [NoRouteTable EXCEPT !.assoc = TRUE, !.routes = {"nat-1"}]]
    /\ \E st1, st2 \in {"running", "shutting-down", "terminated"}, natted \in BOOLEAN :
         \* the first group is the one of the network's NAT instance, or the
         \* cluster's own group, which carries no tag of the controller
         /\ inst = [i \in InstanceIds |->
                      IF i = NatId(1) /\ natted THEN NatInstance(st1, "nat-1", SgId(1))
                      ELSE IF i = NatId(2)
                      THEN [NatInstance(st2, "nat-2", SgId(2)) EXCEPT !.vpc = OtherVpc, !.vpcTag = OtherVpc]
                      ELSE IF i \in ClusterIds THEN NodeInstance(TheVpc, IF natted THEN NoTag ELSE SgId(1))
                      ELSE IF i \in BatchIds THEN NodeInstance(OtherVpc, NoTag)
                      ELSE NoInstance]
         /\ sg = [s \in SgIds |->
                    IF s = SgId(1)
                    THEN (IF natted THEN CreatedGroup(GroupName(PublicSubnetName("nat-1")), TheVpc, "nat-1")
                          ELSE [CreatedGroup("c1-master-sg", TheVpc, NoTag) EXCEPT !.vpcTag = NoTag])
                    ELSE IF s = SgId(2) THEN CreatedGroup(GroupName(PublicSubnetName("nat-2")), OtherVpc, "nat-2")
                    ELSE NoGroup]
    /\ \E tagged \in SUBSET (EipIds \cup OtherEipIds) :
         /\ eips = tagged
         /\ untagged \in SUBSET (EipIds \ tagged)
    /\ inv = [p \in Invs |-> IdleInv]
    /\ budget = 0
    /\ client_cache = [p \in Invs |-> NoTag]

\* one more invocation of cleanup, for either network
FrameInvoke(p, v) ==
    /\ FreeSlot(p)
    /\ inv' = [inv EXCEPT ![p] = [IdleInv EXCEPT !.pc = "cl_list", !.ev = "cleanup", !.vpc = v,
                                                 !.startedEmpty = NetworkEmpty(v)]]
    /\ UNCHANGED <<cloud, budget, client_cache>>

FrameNext ==
    \/ \E p \in Invs, v \in {TheVpc, OtherVpc} : FrameInvoke(p, v)
    \/ \E p \in Invs : cleanup(p)
    \/ \E i \in InstanceIds : InstanceTerminated(i)

SpecFrame == FrameInit /\ [][FrameNext]_vars

(***************************************************************************)
(* The life cycle of one cluster: the gateway exists, with or without the  *)
(* eligibility tag of the cluster; events are delivered in any order and    *)
(* any number of times.                                                     *)
(***************************************************************************)
Init ==
    /\ \E e \in BOOLEAN : gw = [g \in GatewayIds |-> [NoGateway EXCEPT !.state = "available", !.elig = e]]
    /\ inst = [i \in InstanceIds |-> NoInstance]
    /\ rt = [r \in RouteTableIds |-> NoRouteTable]
    /\ sg = [s \in SgIds |-> NoGroup]
    /\ eips \in SUBSET EipIds
    /\ untagged = {}
    /\ inv = [p \in Invs |-> IdleInv]
    /\ budget = MaxInv
    /\ client_cache = [p \in Invs |-> NoTag]

Next ==
    \/ \E p \in Invs : lambda_handler(p)
    \/ \E i \in NatIds : get_nat_instance_user_data(i)
    \/ \E i \in InstanceIds : InstanceTerminated(i)
    \/ Installer

Spec == Init /\ [][Next]_vars

(***************************************************************************)
(* Redelivery: the same life cycle with events handled one at a time, so    *)
(* that a duplicate of an event may arrive long after the first delivery.   *)
(***************************************************************************)
Quiet == \A q \in Invs : ~Running(q)

RedeliveryInit ==
    /\ \E e \in BOOLEAN : gw = [g \in GatewayIds |-> [NoGateway EXCEPT !.state = "available", !.elig = e]]
    /\ inst = [i \in InstanceIds |-> NoInstance]
    /\ rt = [r \in RouteTableIds |-> NoRouteTable]
    /\ sg = [s \in SgIds |-> NoGroup]
    /\ eips \in SUBSET EipIds
    /\ untagged = {}
    /\ inv = [p \in Invs |-> IdleInv]
    /\ budget = MaxInv + 1
    /\ client_cache = [p \in Invs |-> NoTag]

RedeliveryNext ==
    \/ \E p \in Invs : (Quiet /\ Deliver(p)) \/ Handle(p)
    \/ \E i \in NatIds : get_nat_instance_user_data(i)
    \/ \E i \in InstanceIds : InstanceTerminated(i)
    \/ Installer

SpecRedelivery == RedeliveryInit /\ [][RedeliveryNext]_vars

(***************************************************************************)
(* Enable or Disable invoked twice in a row on a network in any state the   *)
(* life cycle can leave it in, with no step of the installer or of the      *)
(* instance's scripts.                                                      *)
(***************************************************************************)
IdemInit ==
    /\ \E gs \in {"available", "deleted"} :
         gw = [g \in GatewayIds |-> [state |-> gs, elig |-> TRUE, vpcTag |-> TheVpc, instTag |-> NoTag]]
    /\ \E st \in {"absent", "running", "terminated"} :
         /\ inst = [i \in InstanceIds |-> IF i = NatId(1) /\ st # "absent" THEN NatInstance(st, "nat-1", SgId(1)) ELSE NoInstance]
         /\ sg = [s \in SgIds |-> IF s = SgId(1) /\ st = "running"
                                  THEN CreatedGroup(GroupName(PublicSubnetName("nat-1")), TheVpc, "nat-1")
                                  ELSE NoGroup]
    /\ \E routes \in {{}, {"nat-1"}, {NatId(1)}}, it \in {NoTag, EmptyTag, NatId(1), "nat-1"}, gt \in {NoTag, "nat-1"} :
         /\ (NatId(1) \in routes \/ it \in {EmptyTag, NatId(1), "nat-1"}) => inst[NatId(1)].state # "absent"
         /\ rt = [r \in RouteTableIds |-> [assoc |-> TRUE, routes |-> routes, instTag |-> it, gwTag |-> gt,
                                           vpcTag |-> IF gt = NoTag THEN NoTag ELSE TheVpc]]
    /\ eips \in SUBSET EipIds
    /\ untagged = {}
    /\ inv = [p \in Invs |-> IdleInv]
    /\ budget = 0
    /\ client_cache = [p \in Invs |-> NoTag]

\* set_nat_instance_enabled(region, vpc_id, enabled) is called; the second call
\* follows the return of the first and has the same arguments
IdemInvoke(p, enabled) ==
    /\ \/ p = 1 /\ inv[1].pc = "idle"
       \/ p = 2 /\ Finished(1) /\ inv[2].pc = "idle" /\ inv[1].ev = (IF enabled THEN "Enable" ELSE "Disable")
    /\ inv' = [inv EXCEPT ![p] = Goto(Started(IF enabled THEN "Enable" ELSE "Disable", NoTag, TRUE, TheVpc),
                                      IF enabled THEN "en_describe" ELSE "di_describe")]
    /\ UNCHANGED <<cloud, budget, client_cache>>

IdemNext ==
    \/ \E p \in Invs, enabled \in BOOLEAN : IdemInvoke(p, enabled)
    \/ \E p \in Invs : set_nat_instance_enabled(p) \/ cleanup(p)
    \/ \E i \in InstanceIds : InstanceTerminated(i)

SpecIdem == IdemInit /\ [][IdemNext]_vars

(***************************************************************************)
(* Enable and Disable on a network of two availability zones: each zone has *)
(* its gateway, its private route table and its NAT instance, and each      *)
(* zone is in a state the life cycle can leave it in.                       *)
(***************************************************************************)
\* the network: no Substitute Instance yet; one that serves the default route;
\* one whose route the installer has set back to the gateway; one that is
\* terminated and has left its group and an address allocation behind
Layouts == {"none", "serving", "overwritten", "left"}

\* the private route table of a zone whose gateway is g and NAT instance i
ZoneTable(layout, g, i) ==
    IF layout = "none"
    THEN [NoRouteTable EXCEPT !.assoc = TRUE, !.routes = {g}]
    ELSE [assoc |-> TRUE, routes |-> IF layout = "serving" THEN {i} ELSE {g},
          instTag |-> IF layout = "left" THEN EmptyTag ELSE i,
          gwTag |-> g, vpcTag |-> TheVpc]
ZoneInstance(layout, g, s) ==
    IF layout = "none" THEN NoInstance
    ELSE [NatInstance(IF layout = "left" THEN "terminated" ELSE "running", g, s)
            EXCEPT !.boot = "ready", !.hook = IF layout = "left" THEN "done" ELSE "armed"]

ZonesInit ==
    /\ \E l1, l2 \in Layouts, gs \in {"available", "deleted"} :
         /\ gw = [g \in GatewayIds \cup ZoneGatewayIds |->
                    [state |-> gs, elig |-> TRUE, vpcTag |-> TheVpc,
                     instTag |-> IF g \in GatewayIds THEN (IF l1 = "none" THEN NoTag ELSE NatId(1))
                                 ELSE (IF l2 = "none" THEN NoTag ELSE NatId(2))]]
         /\ inst = [i \in InstanceIds |->
                      IF i = NatId(1) THEN ZoneInstance(l1, "nat-1", SgId(1))
                      ELSE IF i = NatId(2) THEN ZoneInstance(l2, "nat-2", SgId(2))
                      ELSE NoInstance]
         /\ rt = [r \in RouteTableIds \cup ZoneTableIds |->
                    IF r \in RouteTableIds THEN ZoneTable(l1, "nat-1", NatId(1)) ELSE ZoneTable(l2, "nat-2", NatId(2))]
         /\ sg = [s \in SgIds |->
                    IF (s = SgId(1) /\ l1 # "none") \/ (s = SgId(2) /\ l2 # "none")
                    THEN CreatedGroup(GroupName(PublicSubnetName(IF s = SgId(1) THEN "nat-1" ELSE "nat-2")), TheVpc,
                                      IF s = SgId(1) THEN "nat-1" ELSE "nat-2")
                    ELSE NoGroup]
         /\ eips = IF l1 = "left" THEN EipIds ELSE {}
    /\ untagged = {}
    /\ inv = [p \in Invs |-> IdleInv]
    /\ budget = 0
    /\ client_cache = [p \in Invs |-> NoTag]

\* set_nat_instance_enabled(region, vpc_id, enabled) is called
ZonesInvoke(p, enabled) ==
    /\ FreeSlot(p)
    /\ inv' = [inv EXCEPT ![p] = Goto(Started(IF enabled THEN "Enable" ELSE "Disable", NoTag, TRUE, TheVpc),
                                      IF enabled THEN "en_describe" ELSE "di_describe")]
    /\ UNCHANGED <<cloud, budget, client_cache>>

ZonesNext ==
    \/ \E p \in Invs, enabled \in BOOLEAN : ZonesInvoke(p, enabled)
    \/ \E p \in Invs : set_nat_instance_enabled(p) \/ cleanup(p)
    \/ \E i \in InstanceIds : InstanceTerminated(i)

SpecZones == ZonesInit /\ [][ZonesNext]_vars

(***************************************************************************)
(* Disable on a network in any state the life cycle can leave it in, with   *)
(* a control plane that may fail the lookup of the tagged route table.      *)
(***************************************************************************)
DisableInvoke(p) ==
    /\ FreeSlot(p)
    /\ inv' = [inv EXCEPT ![p] = Goto(Started("Disable", NoTag, TRUE, TheVpc), "di_describe")]
    /\ UNCHANGED <<cloud, budget, client_cache>>

DisableNext ==
    \/ \E p \in Invs : DisableInvoke(p)
    \/ \E p \in Invs : DisableLookupFails(p)
    \/ \E p \in Invs : DisableDescribe(p) \/ DisableReplace(p) \/ cleanup(p)
    \/ \E i \in InstanceIds : InstanceTerminated(i)

SpecDisable == IdemInit /\ [][DisableNext]_vars

(***************************************************************************)
(* The gates of lambda_handler: one event, of any name, with or without an  *)
(* API error, about a gateway and a cluster instance that carry any         *)
(* combination of tags, in a network with or without a Substitute Instance  *)
(* that serves the default route.                                           *)
(***************************************************************************)
RoleTags == {NoTag, EmptyTag, "master", "control-plane", "node"}
NameTags == {NoTag, "c1-master-0", "c1-bootstrap", "c1-worker-a"}
VpcTags == {NoTag, EmptyTag, TheVpc}

GateInit ==
    /\ \E layout \in Layouts :
         /\ \E gs \in {"available", "deleted"}, e \in BOOLEAN, v \in VpcTags :
              gw = [g \in GatewayIds |-> [state |-> gs, elig |-> e, vpcTag |-> v,
                                         instTag |-> IF layout = "none" THEN NoTag ELSE NatId(1)]]
         /\ \E st \in {"running", "shutting-down"}, e \in BOOLEAN, role \in RoleTags, name \in NameTags, v \in VpcTags :
              inst = [i \in InstanceIds |->
                        IF i \in ClusterIds
                        THEN [NoInstance EXCEPT !.state = st, !.elig = e, !.role = role, !.name = name,
                                                !.vpc = TheVpc, !.vpcTag = v]
                        ELSE IF i = NatId(1) /\ layout # "none"
                        THEN [NatInstance(IF layout = "left" THEN "terminated" ELSE "running", "nat-1", SgId(1))
                                EXCEPT !.boot = "ready", !.hook = IF layout = "left" THEN "done" ELSE "armed"]
                        ELSE NoInstance]
         /\ rt = [r \in RouteTableIds |->
                   IF layout = "none"
                   THEN [NoRouteTable EXCEPT !.assoc = TRUE, !.routes = {"nat-1"}]
                   ELSE [assoc |-> TRUE, routes |-> IF layout = "serving" THEN {NatId(1)} ELSE {"nat-1"},
                         instTag |-> IF layout = "left" THEN EmptyTag ELSE NatId(1),
                         gwTag |-> "nat-1", vpcTag |-> TheVpc]]
         /\ sg = [s \in SgIds |-> IF s = SgId(1) /\ layout # "none"
                                  THEN CreatedGroup(GroupName(PublicSubnetName("nat-1")), TheVpc, "nat-1")
                                  ELSE NoGroup]
         /\ eips = IF layout = "left" THEN EipIds ELSE {}
    /\ untagged = {}
    /\ inv = [p \in Invs |-> IdleInv]
    /\ budget = 1
    /\ client_cache = [p \in Invs |-> NoTag]

GateNext ==
    \/ \E p \in Invs : lambda_handler(p)
    \/ \E p \in Invs, ev \in KindsOfEvent \cup OtherEventNames, subj \in GatewayIds \cup ClusterIds :
         DeliverFailedCall(p, ev, subj)
    \/ \E p \in Invs, ev \in OtherEventNames, subj \in GatewayIds \cup ClusterIds :
         DeliverOtherEvent(p, ev, subj)
    \/ \E i \in InstanceIds : InstanceTerminated(i)

SpecGate == GateInit /\ [][GateNext]_vars

(***************************************************************************)
(* The network configuration of main(): configure_nat_instance_network is   *)
(* called for a running Substitute Instance while teardown may be invoked   *)
(* for the same network and instances terminate.                            *)
(***************************************************************************)
NetworkNext ==
    \/ \E p \in Invs : configure_nat_instance_network(p)
    \/ \E p \in Invs : TeardownInvoke(p) \/ cleanup(p)
    \/ \E i \in InstanceIds : InstanceTerminated(i)

SpecNetwork == TeardownInit /\ [][NetworkNext]_vars

(***************************************************************************)
(* Provisioning in accounts with any subnets: the gateway's event is        *)
(* delivered, and delivered again, while the installer associates the route *)
(* table.                                                                   *)
(***************************************************************************)
SubnetsInit ==
    /\ gw = [g \in GatewayIds |-> [NoGateway EXCEPT !.state = "available", !.elig = TRUE]]
    /\ inst = [i \in InstanceIds |-> NoInstance]
    /\ rt = [r \in RouteTableIds |-> NoRouteTable]
    /\ sg = [s \in SgIds |-> NoGroup]
    /\ eips = {}
    /\ untagged = {}
    /\ inv = [p \in Invs |-> IdleInv]
    /\ budget = MaxConcurrent
    /\ client_cache = [p \in Invs |-> NoTag]

SubnetsNext ==
    \/ \E p \in Invs, g \in GatewayIds : DeliverCreateNatGatewayAnySubnets(p, g)
    \/ \E p \in Invs : handle_create_nat_gateway(p)
    \/ \E r \in RouteTableIds : InstallerAssociate(r)

SpecSubnets == SubnetsInit /\ [][SubnetsNext]_vars

(***************************************************************************)
(* One event that lists one or two instances of the cluster, with any tags  *)
(* on each of them, in a network with a Substitute Instance.                *)
(***************************************************************************)
\* the lists of instances of an event, in the order of the event
BatchItems ==
    {<<i>> : i \in ClusterIds \cup BatchIds}
      \cup {q \in [1..2 -> ClusterIds \cup BatchIds] : q[1] # q[2]}

BatchInit ==
    /\ gw = [g \in GatewayIds |-> [state |-> "available", elig |-> TRUE, vpcTag |-> TheVpc, instTag |-> NatId(1)]]
    /\ \E layout \in Layouts \ {"none"}, st \in {"running", "shutting-down"} :
         /\ \E tags \in [ClusterIds \cup BatchIds -> [elig : BOOLEAN, role : {NoTag, "master", "node"},
                                                      name : {"c1-master-0", "c1-bootstrap"},
                                                      vpcTag : {NoTag, TheVpc}]] :
              inst = [i \in InstanceIds |->
                        IF i \in ClusterIds \cup BatchIds
                        THEN [NoInstance EXCEPT !.state = st, !.elig = tags[i].elig, !.role = tags[i].role,
                                                !.name = tags[i].name, !.vpc = TheVpc, !.vpcTag = tags[i].vpcTag]
                        ELSE IF i = NatId(1)
                        THEN [NatInstance(IF layout = "left" THEN "terminated" ELSE "running", "nat-1", SgId(1))
                                EXCEPT !.boot = "ready", !.hook = IF layout = "left" THEN "done" ELSE "armed"]
                        ELSE NoInstance]
         /\ rt = [r \in RouteTableIds |->
                   [assoc |-> TRUE, routes |-> IF layout = "serving" THEN {NatId(1)} ELSE {"nat-1"},
                    instTag |-> IF layout = "left" THEN EmptyTag ELSE NatId(1),
                    gwTag |-> "nat-1", vpcTag |-> TheVpc]]
         /\ sg = [s \in SgIds |-> IF s = SgId(1)
                                  THEN CreatedGroup(GroupName(PublicSubnetName("nat-1")), TheVpc, "nat-1")
                                  ELSE NoGroup]
         /\ eips = IF layout = "left" THEN EipIds ELSE {}
    /\ untagged = {}
    /\ inv = [p \in Invs |-> IdleInv]
    /\ budget = 1
    /\ client_cache = [p \in Invs |-> NoTag]

BatchNext ==
    \/ \E p \in Invs, items \in BatchItems :
         RunInstancesEvent(p, items) \/ TerminateInstancesEvent(p, items)
    \/ \E p \in Invs : set_nat_instance_enabled(p) \/ cleanup(p)
    \/ \E i \in InstanceIds : InstanceTerminated(i)

SpecBatch == BatchInit /\ [][BatchNext]_vars

(***************************************************************************)
(* Teardown in an account that may refuse the delete of a group for a       *)
(* reason of its own.                                                       *)
(***************************************************************************)
DeleteFaultNext ==
    \/ TeardownNext
    \/ \E p \in Invs : CleanupDeleteFails(p)

SpecDeleteFault == TeardownInit /\ [][DeleteFaultNext]_vars

(***************************************************************************)
(* Teardown with scheduling.  A lambda invocation that can take a step      *)
(* takes it; SpecTeardownFair assumes nothing about the account,            *)
(* SpecTeardownLive also has teardown invoked again and again and every     *)
(* instance that is shutting down reach the terminated state.               *)
(***************************************************************************)
SpecTeardownFair == SpecTeardown /\ \A p \in Invs : WF_vars(cleanup(p))

SpecTeardownLive ==
    /\ SpecTeardown
    /\ \A p \in Invs : WF_vars(cleanup(p)) /\ WF_vars(TeardownInvoke(p))
    /\ \A i \in InstanceIds : WF_vars(InstanceTerminated(i))

(***************************************************************************)
(* Properties.                                                              *)
(***************************************************************************)
\* the Substitute Instances of gateway g that are not terminated
LiveSubstitutes(g) == {i \in NatIds : inst[i].gwTag = g /\ inst[i].state \in {"running", "shutting-down"}}

\* C1: whatever the interleaving of duplicate or concurrent CreateNatGateway
\* events, a gateway has at most one Substitute Instance that is not terminated.
C1_AtMostOneSubstitute == \A g \in GatewayIds : Cardinality(LiveSubstitutes(g)) <= 1

\* two CreateNatGateway invocations for the gateway ran at the same time: one
\* has launched its instance and is still running, the other failed
C1_Witness ==
    \E p, q \in Invs :
      /\ p # q
      /\ inv[p].ev = "CreateNatGateway" /\ inv[p].pc = "failed"
      /\ inv[q].ev = "CreateNatGateway" /\ inv[q].subj = inv[p].subj
      /\ inv[q].newInst \in NatIds /\ inst[inv[q].newInst].state = "running"

\* C2 as stated: an event of any of the four kinds whose subject lacks
\* ci-nat-replace=true never makes the handler issue a mutating call.
C2_NoCallForAnyKind ==
    \A p \in Invs : (inv[p].ev \in KindsOfEvent /\ ~inv[p].elig) => inv[p].calls = {}

\* C2 amended: a CreateNatGateway, DeleteNatGateway or RunInstances event whose
\* subject lacks ci-nat-replace=true never makes the handler issue a mutating
\* call; a TerminateInstances event is not gated by ci-nat-replace but by the
\* ci-nat-vpc tag of its instance, and makes the handler issue no mutating call
\* when that tag is missing or empty.
C2_NoCallWhenGated ==
    \A p \in Invs :
      /\ (inv[p].ev \in KindsOfEvent \ {"TerminateInstances"} /\ ~inv[p].elig) => inv[p].calls = {}
      /\ (inv[p].ev = "TerminateInstances" /\ ~Truthy(inv[p].vpc)) => inv[p].calls = {}

\* the RunInstances event of a Substitute Instance, which lacks the tag, was
\* handled and nothing was called
C2_Witness ==
    \E p \in Invs :
      /\ inv[p].ev = "RunInstances" /\ inv[p].subj \in NatIds /\ ~inv[p].elig
      /\ inv[p].pc = "returned" /\ inv[p].calls = {}

\* C3 as stated: a CreateNatGateway event that arrives when its gateway carries
\* the ci-nat-instance tag never launches an instance.
C3_NoSecondLaunch ==
    \A p \in Invs : (inv[p].ev = "CreateNatGateway" /\ inv[p].atStart # NoTag) => inv[p].newInst = NoTag

\* C4: a route table that has a default route keeps exactly one default route,
\* whose target is a gateway or a Substitute Instance: no step leaves the table
\* without the route or with two.
C4_SingleTarget ==
    [][\A r \in RouteTableIds :
         rt[r].routes # {} => Cardinality(rt'[r].routes) = 1 /\ rt'[r].routes \subseteq GatewayIds \cup NatIds]_vars

\* the route was moved to the Substitute Instance and a Disable has put it
\* back on the gateway with its replace_route call
C4_Witness ==
    \E r \in RouteTableIds, p \in Invs :
      /\ inv[p].ev = "TerminateInstances" /\ inv[p].routeOk
      /\ rt[r].routes = {rt[r].gwTag}
      /\ \E i \in NatIds : inst[i].boot \in {"line842", "ready"}

\* C5 as stated: the two invocations together issue at most one replace_route call.
C5_AtMostOneCall == ~("replace_route" \in inv[1].calls /\ "replace_route" \in inv[2].calls)

\* C5 amended: the second of two invocations of Enable, or of Disable, leaves
\* the default route as the first left it, and the two together issue at most
\* one replace_route call that EC2 accepts: the second invocation issues the
\* call only when the call of the first was refused, and it is refused again.
C5_SecondChangesNothing ==
    /\ [][Finished(1) => \A r \in RouteTableIds : rt'[r].routes = rt[r].routes]_vars
    /\ []("replace_route" \in inv[2].calls =>
            "replace_route" \in inv[1].calls /\ ~inv[1].routeOk /\ ~inv[2].routeOk)

\* Enable moved the route with one call, the second Enable returned without one
C5_Witness ==
    /\ inv[1].ev = "Enable" /\ inv[1].routeOk
    /\ inv[2].ev = "Enable" /\ inv[2].pc = "returned" /\ inv[2].calls = {}

\* C6: teardown invoked on a network with no tagged instances, allocations or
\* groups issues no mutating call and returns in its first iteration.
C6_EmptyNetworkNoCalls ==
    \A p \in Invs :
      inv[p].startedEmpty =>
        /\ inv[p].calls = {}
        /\ ~inv[p].slept
        /\ inv[p].pc \in {"cl_list", "cl_eips", "cl_sgs", "converged"}

\* a teardown that started on an empty network has reported convergence
C6_Witness == \E p \in Invs : inv[p].startedEmpty /\ inv[p].pc = "converged"

\* C7: with teardown invoked again and again and every shutting-down instance
\* reaching the terminated state, the network eventually holds no tagged
\* instance, allocation or group and a teardown reports convergence.
C7_Converges == <>(NetworkEmpty(TheVpc) /\ \E p \in Invs : inv[p].pc = "converged")

\* a teardown that made calls and waited has reported convergence on a network
\* that is now empty
C7_Witness ==
    \E p \in Invs : inv[p].pc = "converged" /\ inv[p].slept /\ inv[p].calls # {} /\ NetworkEmpty(TheVpc)

\* C8 as stated: concurrent teardowns of one network all complete without an
\* unhandled error.
C8_NoUnhandledError == \A p \in Invs : inv[p].pc # "failed"

\* C9 as stated: every teardown returns, whatever the account does.
C9_TeardownReturns == \A p \in Invs : (inv[p].pc = "cl_list") ~> Finished(p)

\* C10: the gateway's ci-nat-instance tag is written only after a launch
\* succeeded and names the instance launched for the gateway; it never names an
\* instance that does not exist.
C10_TagNamesLaunched ==
    /\ \A g \in GatewayIds :
         gw[g].instTag # NoTag =>
           /\ gw[g].instTag \in NatIds
           /\ inst[gw[g].instTag].state # "absent"
           /\ inst[gw[g].instTag].gwTag = g
    /\ \A p \in Invs :
         inv[p].pc = "hc_tag_gw" => inv[p].newInst \in NatIds /\ inst[inv[p].newInst].gwTag = inv[p].subj

\* the gateway is tagged with the instance a handler launched for it
C10_Witness ==
    \E g \in GatewayIds, p \in Invs :
      /\ gw[g].instTag \in NatIds /\ inst[gw[g].instTag].state = "running"
      /\ inv[p].ev = "CreateNatGateway" /\ inv[p].subj = g /\ inv[p].pc = "returned"
      /\ "run_instances" \in inv[p].calls


\* C11: every instance, security group and address allocation the controller
\* created carries both ci-nat-vpc and ci-nat-gateway, in every state, also
\* after a failure between two steps.  An allocation is in untagged from the
\* return of allocate_address to the return of create_tags, and stays there
\* when associate_address fails in between.
C11_CreatedResourcesTagged ==
    /\ \A i \in NatIds : inst[i].state # "absent" => Truthy(inst[i].vpcTag) /\ Truthy(inst[i].gwTag)
    /\ untagged = {}

\* C12: when the boot script's replace-route (line 840) fails, the readiness
\* tag ci-nat-instance of the route table is absent and a default route that
\* targeted the gateway still does.  Line 837 has already written the gateway
\* id under that tag key when line 840 runs.
C12_FailedTakeoverLeavesTagAbsent ==
    [][\A i \in NatIds :
         (inst[i].boot = "line840" /\ inst'[i].boot = "gaveup")
           => /\ rt'[inst[i].rtTag].instTag = NoTag
              /\ RouteNatGatewayId(inst[i].rtTag) = inst[i].gwTag
                   => RouteNatGatewayId(inst[i].rtTag)' = inst[i].gwTag]_vars

\* C13: Disable calls cleanup in every case.  The step an invocation takes
\* from the lookup of the tagged table leads to the restore or to cleanup's
\* first call, the step it takes from the restore leads to cleanup's first
\* call, whether replace_route was accepted or not: no step of Disable ends
\* the invocation.
C13_DisableAlwaysTearsDown ==
    [][\A p \in Invs :
         /\ (inv[p].pc = "di_describe" /\ inv'[p] # inv[p]) => inv'[p].pc \in {"di_replace", "cl_list"}
         /\ (inv[p].pc = "di_replace" /\ inv'[p] # inv[p]) => inv'[p].pc = "cl_list"]_vars

\* a Disable whose replace_route was refused is at cleanup's first call
C13_Witness ==
    \E p \in Invs : /\ inv[p].pc = "cl_list" /\ inv[p].ev = "Disable"
                    /\ "replace_route" \in inv[p].calls /\ ~inv[p].routeOk

\* C14: in Disable, when the table that carries the restore tag ci-nat-gateway
\* has a default route that does not target the gateway the tag names, the
\* invocation issues replace_route(NatGatewayId = that gateway) in one step,
\* which is its only step that touches a route, and it has issued no
\* terminate_instances call by then.
C14_RestoreOnceBeforeTerminate ==
    [][\A p \in Invs :
         (inv'[p] # inv[p] /\ Running(p) /\ inv[p].ev \in {"TerminateInstances", "DeleteNatGateway"}) =>
           /\ (/\ inv[p].pc = "di_describe"
               /\ TablesWithGatewayTag(inv[p].vpc) # {}
               /\ \A r \in TablesWithGatewayTag(inv[p].vpc) : RouteNatGatewayId(r) # rt[r].gwTag)
                => /\ inv'[p].pc = "di_replace"
                   /\ inv'[p].target = rt[inv'[p].rtId].gwTag
           /\ inv[p].pc = "di_replace"
                => /\ rt' = replace_route(inv[p].rtId, "NatGatewayId", inv[p].target)
                   /\ inv'[p].calls = {"replace_route"}
                   /\ inv'[p].pc = "cl_list"
           /\ inv[p].pc # "di_replace"
                => /\ \A r \in RouteTableIds : rt'[r].routes = rt[r].routes
                   /\ "replace_route" \in inv'[p].calls <=> "replace_route" \in inv[p].calls]_vars

\* a TerminateInstances invocation took the route back from the instance to
\* the gateway and then asked the instance to terminate
C14_Witness ==
    \E p \in Invs, r \in RouteTableIds, i \in NatIds :
      /\ inv[p].ev = "TerminateInstances" /\ inv[p].routeOk
      /\ {"replace_route", "terminate_instances"} \subseteq inv[p].calls
      /\ rt[r].routes = {rt[r].gwTag}
      /\ inst[i].boot = "ready" /\ inst[i].state = "shutting-down"

C16_BootstrapNeverDisables ==
    \A p \in Invs :
      (/\ inv[p].ev = "TerminateInstances" /\ ~inv[p].apiError
       /\ Contains(inst[inv[p].subj].name, "-bootstrap"))
        => inv[p].pc = "returned" /\ inv[p].calls = {}

\* the bootstrap instance carried ci-nat-vpc, its TerminateInstances event was
\* handled, and the Substitute Instance still runs and serves the default route
C16_Witness ==
    \E p \in Invs, i \in ClusterIds, r \in RouteTableIds :
      /\ inv[p].ev = "TerminateInstances" /\ inv[p].subj = i /\ inv[p].pc = "returned" /\ inv[p].described
      /\ inst[i].name = "c1-bootstrap" /\ inst[i].vpcTag = TheVpc /\ inst[i].role = "control-plane"
      /\ inst[NatId(1)].state = "running" /\ rt[r].routes = {NatId(1)}

\* C17: a TerminateInstances or DeleteNatGateway invocation goes on to Disable
\* or cleanup only if the instance or gateway it described carries ci-nat-vpc
\* with a non-empty value, and it then works on the network that value names;
\* when the tag is missing or empty it returns after the describe call with no
\* call that writes.
C17_ProceedsOnlyWithNetworkTag ==
    \A p \in Invs :
      (inv[p].ev \in {"TerminateInstances", "DeleteNatGateway"} /\ ~inv[p].apiError) =>
        LET tag == IF inv[p].ev = "DeleteNatGateway" THEN gw[inv[p].subj].vpcTag ELSE inst[inv[p].subj].vpcTag
            gated == inv[p].pc = "returned" /\ inv[p].calls = {}
        IN /\ inv[p].described
           /\ ~gated => tag \notin {NoTag, EmptyTag} /\ inv[p].vpc = tag
           /\ tag \in {NoTag, EmptyTag} => gated

\* the DeleteNatGateway event of a gateway tagged with its network was handled
\* and cleanup asked the network's Substitute Instance to terminate
C17_Witness ==
    \E p \in Invs :
      /\ inv[p].ev = "DeleteNatGateway" /\ inv[p].described
      /\ gw[inv[p].subj].vpcTag = TheVpc /\ inv[p].vpc = TheVpc
      /\ "terminate_instances" \in inv[p].calls
      /\ inst[NatId(1)].state = "shutting-down"

\* C18 as stated: a RunInstances event proceeds (create_tags on the instance,
\* then Enable) exactly when the instance carries ci-nat-replace=true and its
\* role tag is 'master' or 'control-plane', or the role tag is absent and its
\* Name contains '-master'; a role tag with any other value blocks the event.
C18_ProceedsIffControlPlane ==
    \A p \in Invs :
      (inv[p].ev = "RunInstances" /\ ~inv[p].apiError) =>
        LET i == inv[p].subj
        IN "create_tags" \in inv[p].calls
             <=> /\ inst[i].elig
                 /\ \/ inst[i].role \in {"master", "control-plane"}
                    \/ inst[i].role = NoTag /\ Contains(inst[i].name, "-master")

\* C18 amended: a RunInstances event proceeds exactly when the instance
\* carries ci-nat-replace=true and its role tag is 'master' or 'control-plane',
\* or the role tag is absent or has the empty value and its Name contains
\* '-master'; the invocation that proceeds has tagged the instance with
\* ci-nat-vpc = its network, the one that does not has returned without a call.
C18_ProceedsIffControlPlaneOrUnnamedRole ==
    \A p \in Invs :
      (inv[p].ev = "RunInstances" /\ ~inv[p].apiError) =>
        LET i == inv[p].subj
            member == \/ inst[i].role \in {"master", "control-plane"}
                      \/ inst[i].role \in {NoTag, EmptyTag} /\ Contains(inst[i].name, "-master")
        IN IF inst[i].elig /\ member
           THEN "create_tags" \in inv[p].calls /\ inst[i].vpcTag = inst[i].vpc
           ELSE inv[p].pc = "returned" /\ inv[p].calls = {}

\* the RunInstances event of an eligible instance with an empty role tag and a
\* control-plane Name was let through
C18_Witness ==
    \E p \in Invs, i \in ClusterIds :
      /\ inv[p].ev = "RunInstances" /\ inv[p].subj = i /\ ~inv[p].apiError
      /\ inst[i].elig /\ inst[i].role = EmptyTag /\ inst[i].name = "c1-master-0"
      /\ "create_tags" \in inv[p].calls /\ inst[i].vpcTag = TheVpc

\* C19: an event that carries errorCode or errorMessage makes the handler
\* issue no call at all, neither a describe call nor a call that writes,
\* whatever its name and the tags of its resource; so does an event whose
\* name is none of the four handled names.
C19_FailedOrUnknownEventNoCall ==
    \A p \in Invs :
      (inv[p].apiError \/ inv[p].ev \in OtherEventNames)
        => inv[p].pc = "returned" /\ inv[p].calls = {} /\ ~inv[p].described

\* the event of a failed TerminateInstances call for a control-plane instance
\* tagged with its network was skipped; the Substitute Instance serves the route
C19_Witness ==
    \E p \in Invs, i \in ClusterIds, r \in RouteTableIds :
      /\ inv[p].apiError /\ inv[p].ev = "TerminateInstances" /\ inv[p].subj = i /\ inv[p].pc = "returned"
      /\ inst[i].vpcTag = TheVpc /\ inst[i].role = "master" /\ inst[i].state = "running"
      /\ inst[NatId(1)].state = "running" /\ rt[r].routes = {NatId(1)}

\* C20: every write to the default route and to a tag of a gateway, a route
\* table or an instance follows a read of the current value in the same
\* invocation and is made only when that value differs from the one to write:
\* an invocation goes to replace_route only from a lookup that found the route
\* different from the tag, and a step in which it issues create_tags changes
\* the value of a tag.  set_tag (line 310) and the create_tags calls of lines
\* 495-501, 614-622 and 721-733 write without a read.
C20_WritesOnlyOnMismatch ==
    [][\A p \in Invs :
         inv'[p] # inv[p] =>
           /\ (inv[p].pc = "en_describe" /\ inv'[p].pc = "en_replace")
                => RouteInstanceId(inv'[p].rtId) # rt[inv'[p].rtId].instTag
           /\ (inv[p].pc = "di_describe" /\ inv'[p].pc = "di_replace")
                => RouteNatGatewayId(inv'[p].rtId) # rt[inv'[p].rtId].gwTag
           /\ ("create_tags" \in inv'[p].calls /\ (inv'[p].ev # inv[p].ev \/ "create_tags" \notin inv[p].calls))
                => \/ \E g \in GatewayIds : gw'[g] # gw[g]
                   \/ \E i \in InstanceIds : inst'[i].vpcTag # inst[i].vpcTag
                   \/ \E r \in RouteTableIds : rt'[r] # rt[r]]_vars

\* C21: an invocation of cleanup that has asked an instance to terminate ends
\* at that iteration: it goes on to no get_eips_by_tag, release_address,
\* describe_security_groups or delete_security_group and to no sleep, also
\* when the listing holds several reservations of which only some had an
\* instance to terminate.  instances_to_terminate is reset for every
\* reservation (line 888), so the test of line 908 sees the last one only.
C21_TerminateEndsInvocation ==
    \A p \in Invs :
      (inv[p].ev = "cleanup" /\ "terminate_instances" \in inv[p].calls)
        => inv[p].pc \in {"cl_term", "returned"}

\* C22: an iteration of cleanup issues at most one terminate_instances call,
\* which names every listed instance that is neither terminated nor
\* shutting-down: after the call none of them is left to name, whatever the
\* number of reservations in the listing.  The call of line 906 is inside
\* the loop over the reservations and names one reservation's instances.
C22_OneTerminateCallPerIteration ==
    [][\A p \in Invs :
         (inv[p].pc = "cl_term" /\ inv'[p] # inv[p]) => inv'[p].queue = <<>>]_vars

\* C23: when all PollAttempts polls found no route table associated with the
\* private subnet, provisioning logs and returns: the invocation creates no
\* security group, launches no instance and tags no route table.  After the
\* message of line 640 the function goes on to create_nat_security_group.
C23_PollTimeoutAborts ==
    [][\A p \in Invs :
         (inv[p].pc = "ci_sg" /\ inv[p].poll = PollAttempts /\ inv[p].rtId = NoTag /\ inv'[p] # inv[p])
           => inv'[p].pc = "returned" /\ sg' = sg /\ inst' = inst /\ rt' = rt]_vars

(***************************************************************************)
(* C24: every launch attempt uses the image the candidate list pairs with   *)
(* the instance type attempted, also after falling through from the first   *)
(* candidate to a later one and in later invocations of the same process.   *)
(***************************************************************************)
C24_AttemptUsesImageOfItsCandidate ==
    \A p \in Invs :
      (inv[p].pc \in {"ci_tag_rt", "hc_tag_gw"} /\ inv[p].idx \in 1..NumCandidates)
        => inv[p].ami = ImageOf(NAT_INSTANCES_INFO[inv[p].idx].ami_parameter)

(***************************************************************************)
(* C25: the restore tag ci-nat-gateway is written on the private route      *)
(* table before the launch call, so in every state in which a Substitute    *)
(* Instance exists its route table already carries the restore tag.         *)
(***************************************************************************)
C25_RestoreTagBeforeLaunch ==
    \A i \in NatIds :
      (inst[i].state # "absent" /\ inst[i].rtTag \in RouteTableIds)
        => rt[inst[i].rtTag].gwTag # NoTag

(***************************************************************************)
(* C26: every replace-route call Enable issues targets the id of a real     *)
(* Substitute Instance; in no interleaving with the boot script and the     *)
(* shutdown hook is its target a gateway id, an empty value or any other    *)
(* value that is not an instance.                                           *)
(***************************************************************************)
C26_EnableTargetsSubstituteInstance ==
    \A p \in Invs :
      inv[p].pc = "en_replace"
        => inv[p].target \in NatIds /\ inst[inv[p].target].state # "absent"

(***************************************************************************)
(* C27: the launch attempts go through the candidates in priority order     *)
(* from the first; only the error "Unsupported" moves on to the next        *)
(* candidate, any other launch error ends the invocation at once; nothing   *)
(* is attempted after a launch that succeeded, so one provisioning launches *)
(* at most one instance; and with all candidates exhausted the invocation   *)
(* ends as a failure, never as the return of a launched instance.           *)
(***************************************************************************)
C27_LaunchLoopOrderAndFailure ==
    [][\A p \in Invs : Running(p) =>
           LET r == inv'[p]
               launched == {i \in NatIds : inst[i].state = "absent" /\ inst'[i].state # "absent"}
           IN \* the first attempt is with the first candidate
              /\ (inv[p].pc = "ci_sg" /\ r.pc = "ci_launch") => r.idx = 1
              /\ (inv[p].pc = "ci_launch" /\ r # inv[p]) =>
                   \/ r.pc = "ci_launch" /\ r.idx = inv[p].idx + 1 /\ r.launchErr = "Unsupported" /\ launched = {}
                   \/ r.pc = "failed" /\ launched = {}
                   \/ r.pc = "ci_tag_rt" /\ launched = {r.newInst} /\ r.idx = inv[p].idx
                   \/ /\ r.pc = "ci_tag_rt" /\ r.newInst = NoTag /\ launched = {}
                      /\ inv[p].idx = NumCandidates /\ r.launchErr = "Unsupported"
              \* after the loop there is no further attempt, and without an instance
              \* the invocation fails
              /\ (inv[p].pc \in {"ci_tag_rt", "hc_tag_gw"} /\ r # inv[p]) =>
                   /\ r.pc # "ci_launch"
                   /\ "run_instances" \in inv[p].calls
                   /\ inv[p].newInst = NoTag => r.pc = "failed"
                   /\ launched = {}
      ]_vars
\* all candidates were unsupported: the loop has ended without an instance
C27_Witness ==
    \E p \in Invs :
      /\ inv[p].pc = "ci_tag_rt" /\ inv[p].newInst = NoTag
      /\ inv[p].idx = NumCandidates /\ inv[p].launchErr = "Unsupported"

(***************************************************************************)
(* C28: Teardown returns through convergence only at the end of an          *)
(* iteration whose listings showed no tagged instance that is not           *)
(* terminated, no tagged address allocation and no tagged security group,   *)
(* an iteration that made no mutating call; every other iteration that      *)
(* reaches its end without having returned after a termination sleeps and   *)
(* starts the next iteration.                                               *)
(***************************************************************************)
C28_ConvergesOnlyOnEmptyListings ==
    [][\A p \in Invs : Running(p) /\ inv'[p] # inv[p] =>
         LET r == inv'[p]
         IN \* convergence: straight from the empty listing of the groups
            /\ r.pc = "converged" =>
                 /\ inv[p].pc = "cl_sgs" /\ TaggedGroups(inv[p].vpc) = {}
                 /\ ~inv[p].ntSeen /\ ~inv[p].eipsSeen
                 /\ cloud' = cloud
            \* a mutating call of an iteration follows a listing that showed something
            /\ r.pc = "cl_term" => r.ntSeen
            /\ r.pc = "cl_release" => r.eipsSeen
            /\ r.pc = "cl_delete" => r.sgsSeen
            \* the end of any other iteration
            /\ inv[p].pc = "cl_sgs" => r.pc \in {"cl_delete", "cl_sleep", "converged"}
            /\ inv[p].pc = "cl_delete" => r.pc \in {"cl_delete", "cl_sleep"}
            /\ inv[p].pc = "cl_sleep" => r.pc = "cl_list" /\ cloud' = cloud
      ]_vars
\* an invocation has converged after an iteration that slept
C28_Witness ==
    \E p \in Invs : inv[p].pc = "converged" /\ inv[p].slept /\ "delete_security_group" \in inv[p].calls

(***************************************************************************)
(* C29: a delete of a security group that fails because the group is still  *)
(* in use, or is not found, does not abort Teardown: the remaining groups   *)
(* of the iteration are still attempted, the iteration does not converge    *)
(* and the next iteration lists the group again; any other error of the     *)
(* delete leaves the handler and ends the invocation.                       *)
(***************************************************************************)
C29_TolerantGroupDelete ==
    [][\A p \in Invs : Running(p) /\ inv'[p] # inv[p] =>
         LET r == inv'[p]
         IN /\ inv[p].pc = "cl_delete" =>
                 LET s == Head(inv[p].queue)
                     rest == Tail(inv[p].queue)
                 IN IF r.pc = "failed"
                    THEN /\ r.error \notin {NoTag, "ok", "DependencyViolation", "InvalidGroup.NotFound"}
                         /\ sg' = sg
                    ELSE /\ r.queue = rest /\ r.error = NoTag
                         /\ r.pc = IF rest # <<>> THEN "cl_delete" ELSE "cl_sleep"
                         /\ sg'[s].state = IF sg[s].state = "present" /\ ~InUse(s) THEN "deleted" ELSE sg[s].state
            \* every iteration lists the groups that are left
            /\ (inv[p].pc = "cl_sgs" /\ r.pc = "cl_delete") =>
                 {r.queue[k] : k \in 1..Len(r.queue)} = TaggedGroups(inv[p].vpc)
      ]_vars
\* a delete met a group in use, the invocation went on and has slept since
C29_Witness ==
    \E p \in Invs :
      /\ inv[p].pc = "cl_delete" /\ inv[p].slept
      /\ \E s \in SgIds : sg[s].state = "present" /\ InUse(s) /\ inv[p].queue = <<s>>

(***************************************************************************)
(* C30: when the public subnet of the gateway cannot be described, or no    *)
(* subnet of its network and availability zone has a Name that contains     *)
(* "-private" in any case, provisioning returns without a mutating call     *)
(* and leaves the account as it was, so that a later delivery starts from a *)
(* clean state; with such a subnet it goes on and tags the gateway.         *)
(***************************************************************************)
C30_NoPrivateSubnetNoCall ==
    [][\A p \in Invs :
         (~Running(p) /\ inv'[p] # inv[p] /\ inv'[p].ev = "CreateNatGateway" /\ inv'[p].elig) =>
           LET r == inv'[p]
               named == {"c1-private-us-east-1a", "c1-PRIVATE-us-east-1a", "c1-private-us-east-1b"}
               private == \E pub \in r.subnets :
                             /\ pub.id = PublicSubnetId(r.subj)
                             /\ \E s \in r.subnets : s.vpc = pub.vpc /\ s.az = pub.az /\ s.name \in named
           IN IF private
              THEN r.pc = "ci_poll" /\ r.calls = {"create_tags"}
              ELSE r.pc = "returned" /\ r.calls = {} /\ cloud' = cloud
      ]_vars
\* a delivery found no private subnet and returned; a later delivery, in an
\* account that has one by then, has launched the instance
C30_Witness ==
    \E p, q \in Invs :
      /\ inv[p].ev = "CreateNatGateway" /\ inv[p].pc = "returned" /\ inv[p].calls = {}
      /\ \E s \in inv[p].subnets : s.id = PublicSubnetId(inv[p].subj)
      /\ \A s \in inv[p].subnets : s.name \in {NoTag, PublicSubnetName(inv[p].subj), "c1-private-us-east-1b"}
      /\ inv[q].ev = "CreateNatGateway" /\ inv[q].newInst # NoTag

(***************************************************************************)
(* C31: the wait for the route table of the private subnet is bounded: it   *)
(* makes at most PollAttempts describe calls, each one that finds nothing   *)
(* followed by the sleep; it stops at the first poll that returns an        *)
(* associated route table and uses the id of that table; it never goes on   *)
(* polling after the last attempt.                                          *)
(***************************************************************************)
C31_BoundedRouteTableWait ==
    [][\A p \in Invs : (Running(p) /\ inv[p].pc = "ci_poll" /\ inv'[p] # inv[p]) =>
         LET r == inv'[p]
             associated == {t \in RouteTableIds : rt[t].assoc}
         IN /\ inv[p].poll < PollAttempts
            /\ cloud' = cloud
            /\ IF associated # {}
               THEN r.pc = "ci_sg" /\ r.rtId \in associated
               ELSE /\ r.rtId = NoTag /\ r.poll = inv[p].poll + 1
                    /\ r.pc = IF r.poll < PollAttempts THEN "ci_poll" ELSE "ci_sg"
      ]_vars
\* the table is associated while the invocation waits to make its last poll
C31_Witness ==
    \E p \in Invs :
      /\ inv[p].pc = "ci_poll" /\ inv[p].poll = PollAttempts - 1
      /\ \E t \in RouteTableIds : rt[t].assoc

(***************************************************************************)
(* C32: the startup script of the instance sets the readiness tag to the    *)
(* instance's own id only after its replace-route call to itself has        *)
(* succeeded, and touches neither the route nor the tag when disabling the  *)
(* source/destination check failed; the shutdown hook sets the readiness    *)
(* tag to the empty value and then replaces the default route by one to the *)
(* original gateway.                                                        *)
(***************************************************************************)
C32_StartupAndShutdownContract ==
    [][\A i \in NatIds : inst'[i] # inst[i] /\ inst[i].state # "absent" =>
         LET t == inst[i].rtTag
         IN \* the check of line 833: no call on the table, and nothing after a failure
            /\ inst[i].boot = "start" /\ inst'[i].boot # "start" => rt' = rt
            /\ inst[i].boot = "gaveup" => inst'[i].boot = "gaveup"
            \* line 842 is reached only through the replace-route of line 840 that
            \* put the instance into the default route
            /\ inst'[i].boot = "line842" /\ inst[i].boot # "line842" =>
                 inst[i].boot = "line840" /\ rt'[t].routes = {i}
            \* the tag takes the instance's id at line 842 only
            /\ inst'[i].boot = "ready" /\ inst[i].boot # "ready" =>
                 inst[i].boot = "line842" /\ rt'[t] = [rt[t] EXCEPT !.instTag = i]
            /\ \A r \in RouteTableIds :
                 rt'[r].instTag = i /\ rt[r].instTag # i => inst[i].boot = "line842"
            \* the hook: the tag first, then the route
            /\ inst[i].hook = "armed" /\ inst'[i].hook # "armed" =>
                 inst'[i].hook = "line806" /\ rt'[t] = [rt[t] EXCEPT !.instTag = EmptyTag]
            /\ inst[i].hook = "line806" /\ inst'[i].hook # "line806" =>
                 /\ inst'[i].hook = "done"
                 /\ rt'[t].instTag = rt[t].instTag
                 /\ (rt[t].routes # {} /\ gw[inst[i].gwTag].state = "available") => rt'[t].routes = {inst[i].gwTag}
      ]_vars
\* an instance that served has been shut down and its hook has put the route
\* back to the gateway
C32_Witness ==
    \E i \in NatIds :
      /\ inst[i].boot = "ready" /\ inst[i].hook = "done"
      /\ rt[inst[i].rtTag].routes = {inst[i].gwTag} /\ rt[inst[i].rtTag].instTag = EmptyTag

(***************************************************************************)
(* C33: when a provisioning for gateway G with public subnet S, private     *)
(* route table R and network V returns with success, the tags agree: the    *)
(* new instance I carries ci-nat-gateway = G, ci-nat-vpc = V,               *)
(* ci-nat-public-subnet = S and ci-nat-private-route-table = R; G carries   *)
(* ci-nat-vpc = V and ci-nat-instance = I; R carries ci-nat-gateway = G and *)
(* ci-nat-vpc = V.                                                          *)
(***************************************************************************)
C33_TagsAgreeAfterProvisioning ==
    [][\A p \in Invs :
         (inv[p].pc = "hc_tag_gw" /\ inv'[p].pc = "returned") =>
           LET I == inv[p].newInst
               G == inv[p].subj
               R == inv[p].rtId
               V == inv[p].vpc
           IN /\ I \in NatIds /\ inst'[I].state # "absent"
              /\ inst'[I].gwTag = G /\ inst'[I].vpcTag = V
              /\ inst'[I].subnetTag = PublicSubnetId(G) /\ inst'[I].rtTag = R
              /\ gw'[G].vpcTag = V /\ gw'[G].instTag = I
              /\ R \in RouteTableIds /\ rt'[R].gwTag = G /\ rt'[R].vpcTag = V
      ]_vars
\* a provisioning has returned with the gateway tagged with its instance
C33_Witness ==
    \E p \in Invs, i \in NatIds :
      /\ inv[p].ev = "CreateNatGateway" /\ inv[p].pc = "returned" /\ "run_instances" \in inv[p].calls
      /\ gw[inv[p].subj].instTag = i /\ inst[i].gwTag = inv[p].subj

(***************************************************************************)
(* C34: if the DeleteNatGateway event of a gateway is handled after the     *)
(* provisioning for that gateway has started, also while the provisioning   *)
(* still waits for the route table or launches, then once all invocations   *)
(* have finished no Substitute Instance of that gateway is left running.    *)
(* (The gateway carries ci-nat-vpc only once a provisioning has started, so *)
(* a DeleteNatGateway invocation that read the tag was handled after it.)   *)
(***************************************************************************)
C34_DeleteAfterProvisioningLeavesNone ==
    \A p \in Invs :
      (/\ \A q \in Invs : ~Running(q)
       /\ inv[p].ev = "DeleteNatGateway" /\ inv[p].pc = "converged"
       /\ inv[p].elig /\ Truthy(inv[p].vpc))
        => \A i \in NatIds : inst[i].gwTag = inv[p].subj => inst[i].state # "running"

(***************************************************************************)
(* C35: once Disable has restored the default route to the gateway and      *)
(* Teardown has terminated the Substitute Instance, the default route of no *)
(* route table targets the terminated instance, in any interleaving with an *)
(* Enable invocation triggered by a delayed or concurrent launch event of a *)
(* control-plane instance.                                                  *)
(***************************************************************************)
C35_NoRouteToTerminatedInstance ==
    \A p \in Invs, i \in NatIds :
      (/\ inv[p].ev = "TerminateInstances" /\ inv[p].routeOk
       /\ {"replace_route", "terminate_instances"} \subseteq inv[p].calls
       \* the instance had served, and its shutdown hook has run to its end
       \* with the gateway still there
       /\ inst[i].state = "terminated" /\ inst[i].boot = "ready" /\ inst[i].hook = "done"
       /\ gw[inst[i].gwTag].state = "available")
        => \A r \in RouteTableIds : RouteInstanceId(r) # i

(***************************************************************************)
(* C36: for a RunInstances or TerminateInstances event that lists several   *)
(* instances, the first listed instance alone decides the outcome: if it    *)
(* fails a gate the handler returns without examining the others, at most   *)
(* one instance (the first) is tagged per event, and Enable or Disable is   *)
(* entered at most once per event.                                          *)
(***************************************************************************)
C36_FirstListedInstanceDecides ==
    [][\A p \in Invs :
         /\ (~Running(p) /\ inv'[p] # inv[p] /\ inv'[p].ev \in {"RunInstances", "TerminateInstances"}) =>
              LET r == inv'[p]
                  first == r.items[1]
              IN /\ r.subj = first
                 /\ \A i \in InstanceIds \ {first} : inst'[i] = inst[i]
                 /\ <<gw', rt', sg', eips', untagged'>> = <<gw, rt, sg, eips, untagged>>
                 /\ IF r.ev = "RunInstances"
                    THEN IF RunInstancesProceeds(inst[first].elig, inst[first].role, inst[first].name)
                         THEN r.pc = "en_describe" /\ inst'[first] = [inst[first] EXCEPT !.vpcTag = inst[first].vpc]
                         ELSE r.pc = "returned" /\ r.calls = {} /\ inst' = inst
                    ELSE /\ inst' = inst
                         /\ IF TerminateInstancesProceeds(inst[first].vpcTag, inst[first].name)
                            THEN r.pc = "di_describe"
                            ELSE r.pc = "returned" /\ r.calls = {}
         \* Enable and Disable are entered by the step that takes the event only
         /\ (Running(p) /\ inv'[p].pc \in {"en_describe", "di_describe"}) => inv'[p].pc = inv[p].pc
      ]_vars
\* a TerminateInstances event has returned on its first instance, which has
\* no network tag, while the second instance listed would have passed the gates
C36_Witness ==
    \E p \in Invs :
      /\ inv[p].ev = "TerminateInstances" /\ inv[p].pc = "returned" /\ inv[p].calls = {}
      /\ Len(inv[p].items) = 2
      /\ ~Truthy(inst[inv[p].items[1]].vpcTag)
      /\ TerminateInstancesProceeds(inst[inv[p].items[2]].vpcTag, inst[inv[p].items[2]].name)

(***************************************************************************)
(* C37: an Enable or Disable invocation examines one route table (one that  *)
(* carries the relevant tag) and issues at most one replace-route call;     *)
(* when several route tables carry the tag, the default routes of all the   *)
(* others are left unchanged by that invocation.                            *)
(***************************************************************************)
C37_OneRouteTablePerInvocation ==
    [][/\ \A p \in Invs :
            \* the replace-route step: the first such call of the invocation,
            \* on the table chosen, and the invocation moves on
            /\ (inv[p].pc \in {"en_replace", "di_replace"} /\ inv'[p] # inv[p]) =>
                 /\ "replace_route" \notin inv[p].calls
                 /\ inv'[p].pc \notin {"en_replace", "di_replace", "en_describe", "di_describe"}
                 /\ \A r \in DOMAIN rt \ {inv[p].rtId} : rt'[r] = rt[r]
            \* the table is chosen once, by the describe step, among the tagged ones
            /\ (inv'[p].pc \in {"en_replace", "di_replace"} /\ inv'[p] # inv[p]) =>
                 /\ inv[p].pc = (IF inv'[p].ev = "Enable" THEN "en_describe" ELSE "di_describe")
                 /\ inv'[p].rtId \in (IF inv'[p].ev = "Enable" THEN TablesWithInstanceTag(inv[p].vpc)
                                      ELSE TablesWithGatewayTag(inv[p].vpc))
            /\ (Running(p) /\ inv'[p].pc \in {"en_describe", "di_describe"}) => inv'[p] = inv[p]
       \* no other step of an invocation changes a route table
       /\ rt' # rt => \E p \in Invs : inv[p].pc \in {"en_replace", "di_replace"} /\ inv'[p] # inv[p]
      ]_vars
\* the first Enable of a network where both zones' tables carried a readiness
\* tag and routed to their gateways has returned after its replace-route call:
\* one table routes to its instance, the other still routes to its gateway
C37_Witness ==
    /\ inv[1].ev = "Enable" /\ inv[1].pc = "returned" /\ inv[1].routeOk
    /\ "replace_route" \in inv[1].calls
    /\ inv[2].pc = "idle"
    /\ \E r1, r2 \in DOMAIN rt :
         /\ r1 # r2
         /\ Truthy(rt[r1].instTag) /\ RouteInstanceId(r1) = rt[r1].instTag
         /\ Truthy(rt[r2].instTag) /\ RouteInstanceId(r2) # rt[r2].instTag

C39_TeardownTouchesOnlyItsNetwork ==
    [][\A p \in Invs :
         (Running(p) /\ inv'[p] # inv[p] /\ inv[p].ev = "cleanup") =>
            /\ \A i \in InstanceIds :
                 inst'[i] # inst[i] => /\ inst[i].vpc = inv[p].vpc /\ inst[i].gwTag # NoTag
                                       /\ inst[i].state = "running"
                                       /\ inst'[i] = [inst[i] EXCEPT !.state = "shutting-down"]
            /\ \A s \in SgIds :
                 sg'[s] # sg[s] => /\ sg[s].vpc = inv[p].vpc /\ sg[s].gwTag # NoTag
                                   /\ sg'[s] = [sg[s] EXCEPT !.state = "deleted"]
            /\ eips' \subseteq eips
            /\ \A e \in eips \ eips' : EipVpcTag(e) = inv[p].vpc
            /\ untagged' = untagged /\ gw' = gw /\ rt' = rt
      ]_vars
\* a Teardown of the cluster's network has released its allocation, deleted
\* its group and converged with the NAT instance terminated, while the node of
\* the cluster and the other network's NAT instance, group and allocation
\* are as they were
C39_Witness ==
    \E p \in Invs :
      /\ inv[p].ev = "cleanup" /\ inv[p].vpc = TheVpc /\ inv[p].pc = "converged"
      /\ {"release_address", "delete_security_group"} \subseteq inv[p].calls
      /\ inst[NatId(1)].state = "terminated" /\ sg[SgId(1)].state = "deleted"
      /\ eips = OtherEipIds
      /\ inst[NatId(2)].state = "running" /\ inst[NatId(2)].vpc = OtherVpc
      /\ sg[SgId(2)].state = "present"
      /\ \A i \in ClusterIds \cup BatchIds : inst[i].state = "running"

====
